---- MODULE Spec2Model ----
(***************************************************************************)
(* SMP client (simplexmq-js): the multiplexed request/response client      *)
(* (SMPClient, src/src/parser.ts lines 236-349) over the encrypted         *)
(* transport (SMPTransport / tPutEncrypted / nextIV, src/src/transport.ts).*)
(*                                                                         *)
(* Execution model: one JavaScript event loop.  A step is either a task    *)
(* (an application call, the completion of a WebCrypto operation, a        *)
(* transmission delivered by the transport, a socket event), which runs    *)
(* only when the microtask queue `jobs` is empty, or the microtask at the  *)
(* head of `jobs`.  Code between two awaits is one atomic step.            *)
(* WebCrypto operations complete in any order.                             *)
(***************************************************************************)
EXTENDS Integers, Sequences, FiniteSets, TLC

\* ------------------------------------------------------------------ bounds
MaxCalls == 2        \* sendSMPCommand calls made by the application
MaxRecv == 2         \* transmissions delivered by the transport
MsgQSize == 1        \* capacity of the msgQ the application supplies
MaxSubs == 1         \* subscribeSMPQueue calls, in the specification SpecMsg
MaxPush == 4         \* MSG transmissions delivered, in the specification SpecMsg
MaxBurst == 11       \* calls made in one synchronous run, in SpecBurst
ByteBits == 1        \* width of a byte of an IV and of the encoded counter, scaled
                     \* down from 8: the counter encoding is 4 * ByteBits wide
MaxWrap == 17        \* unsigned calls made in one synchronous run, in SpecWrap
MaxInbound == 3      \* frames the socket hands over, in SpecInbound
MaxWrapperCalls == 1 \* calls of the wrappers, in SpecWrappers

\* ------------------------------------------------------- program constants
transportBlockSize == 4096
maxTransportBlockSize == 65536
authTagSize == 16
serverHeaderSize == 8
binaryRsaTransport == 0
currentSMPVersion == <<0, 4, 1, 0>>
ivSize == 16

\* ------------------------------------------------------------------- state
VARIABLES
    clientCorrId,    \* SMPClient.clientCorrId
    sentCommands,    \* SMPClient.sentCommands: corrId string -> Request
    connected,       \* SMPClient._connected
    calls,           \* the sendSMPCommand invocations so far, in call order
    futures,         \* per call: the promise sendSMPCommand returned
    writes,          \* per call: where its transport.write(t) stands
    sndKey,          \* th.sndKey: baseIV and counter (the AES key is not modelled)
    rcvKey,          \* th.rcvKey: baseIV and counter
    lastFrame,       \* kind, length and authenticity of the frame processWSQueue
                     \* took last
    hs,              \* clientHandshake: its position, inputs and effects
    codec,           \* a command, its serialization and what parsing that gives
    wsLoop,          \* processWSQueue: "run", "failed" (decryptBlock rejected and
                     \* the loop was left), "done" (the socket queue ended and
                     \* the transport queue was closed)
    channel,         \* blocks handed to sock.send, in order
    conn,            \* the socket: "open", "closing", "closed"
    tq,              \* SMPTransport.queue: parsed transmissions not yet read
    recvd,           \* number of transmissions the transport has delivered
    loop,            \* runClient: "await" (parked at the for-await), "run" (its
                     \* resumption is queued), "enqueue" (suspended in
                     \* msgQ.enqueue), "done", "failed"
    results,         \* per call: how the calling wrapper's own promise ended
    msgQ,            \* the application's ABQueue<ServerMessage>
    enqueued,        \* every ServerMessage that entered msgQ's buffer, in order
    registered,      \* corrId strings ever set in sentCommands
    jobs             \* the microtask queue

vars == <<clientCorrId, sentCommands, connected, calls, futures, writes, sndKey,
          channel, conn, tq, recvd, loop, results, msgQ, enqueued, registered, jobs,
          rcvKey, lastFrame, hs, codec, wsLoop>>

\* ----------------------------------------------------------------- helpers
empty == << >>

\* a JavaScript string is modelled as the sequence of its characters; the
\* characters that occur are the decimal digits
DigitChars == <<"0", "1", "2", "3", "4", "5", "6", "7", "8", "9">>

\* s.charCodeAt(i) and String.fromCharCode(b), on the digits
charCodeAt(ch) == 47 + (CHOOSE k \in DOMAIN DigitChars : DigitChars[k] = ch)
fromCharCode(b) == DigitChars[b - 47]

\* B.encodeAscii: string to bytes; B.decodeAscii: bytes to string
encodeAscii(s) == [k \in DOMAIN s |-> charCodeAt(s[k])]
decodeAscii(a) == [k \in DOMAIN a |-> fromCharCode(a[k])]

\* `${n}`: the decimal form of a non-negative integer
RECURSIVE numberToString(_)
numberToString(n) ==
    IF n < 10 THEN <<DigitChars[n + 1]>>
    ELSE numberToString(n \div 10) \o <<DigitChars[(n % 10) + 1]>>

QueueIds == {"q1", "q2"}

\* what the application passes to sendSMPCommand: the command, whether a
\* signing key is given, and the byte length of the framed transmission
CallInputs ==
    { [cmd |-> "SUB",  key |-> TRUE,  queueId |-> "q1", len |-> 400],
      [cmd |-> "SEND", key |-> FALSE, queueId |-> "q1", len |-> 100],
      [cmd |-> "SEND", key |-> FALSE, queueId |-> "q1", len |-> 4080] }

\* a byte holds ByteBits bits
ByteBase == 2 ^ ByteBits

\* b ^ c on two bytes
RECURSIVE xor(_, _)
xor(b, c) == IF b = 0 /\ c = 0 THEN 0 ELSE ((b + c) % 2) + 2 * xor(b \div 2, c \div 2)

\* B.encodeInt32, DataView.setUint32(0, n): the low 4 bytes of n, big-endian
encodeInt32NoHighByte(n) == [i \in 1..4 |-> IF i = 1 THEN 0 ELSE (n \div (ByteBase ^ (4 - i))) % ByteBase]
encodeInt32(n) == [i \in 1..4 |-> (n \div (ByteBase ^ (4 - i))) % ByteBase]

\* nextIV: the first 4 bytes of a copy of baseIV are XORed with the encoding
\* of the counter's value before the increment
nextIVNoIncrement(k) ==
    LET c == encodeInt32(k.counter)
    IN  [iv |-> [i \in 1..ivSize |-> IF i <= 4 THEN xor(k.baseIV[i], c[i]) ELSE k.baseIV[i]],
         key |-> k]
nextIV(k) ==
    LET c == encodeInt32(k.counter)
    IN  [iv |-> [i \in 1..ivSize |-> IF i <= 4 THEN xor(k.baseIV[i], c[i]) ELSE k.baseIV[i]],
         key |-> [k EXCEPT !.counter = @ + 1]]

\* encryptAES up to its await: throws `large message` or starts encrypting
encryptAESSyncNoSuspend(paddedSize, len) == IF len >= paddedSize THEN "failed" ELSE "sent"
encryptAESSyncAcceptsPadded(paddedSize, len) == IF len > paddedSize THEN "failed" ELSE "encrypt"
encryptAESSync(paddedSize, len) == IF len >= paddedSize THEN "failed" ELSE "encrypt"

\* tPutEncrypted up to its await: the counter is taken, then encryptAES starts
tPutEncrypted(k, len) ==
    LET r == nextIV(k)
    IN  [pc |-> encryptAESSync(hs.blockSize - authTagSize, len),
         counter |-> k.counter, iv |-> r.iv, key |-> r.key]

\* encryptAES: the padded plaintext, encrypted, with the GCM tag appended
encryptedNoTag(paddedSize) == paddedSize
encryptedAndTag(paddedSize) == paddedSize + authTagSize

\* WSTransport.write: sock.send emits the frame only on an open socket
sockSend(ch, block) == IF conn = "open" THEN Append(ch, block) ELSE ch

\* the frame of a call's transmission, as the channel carries it
Block(i, corrId, counter) ==
    [call |-> i, corrId |-> corrId, counter |-> counter,
     len |-> encryptedAndTag(hs.blockSize - authTagSize),
     registered |-> decodeAscii(corrId) \in registered]

\* Map.set / Map.delete
SentSet(sc, cId, req) == [k \in DOMAIN sc \cup {cId} |-> IF k = cId THEN req ELSE sc[k]]
SentDeleteNone(sc, cId) == sc
SentDelete(sc, cId) == [k \in DOMAIN sc \ {cId} |-> sc[k]]

\* `${this.clientCorrId++}`
corrIdAllocEmptyFirst(n) ==
    [corrId |-> IF n = 0 THEN << >> ELSE numberToString(n), next |-> n + 1]
corrIdNoIncrement(n) == [corrId |-> numberToString(n), next |-> n]
corrIdAlloc(n) == [corrId |-> numberToString(n), next |-> n + 1]

\* ------------------------------------------------- commands and their syntax
\* B.space, B.char_equal
space == 32
char_equal == 61

\* cmdTags in the order someStr tries them, and binaryTags(cmdTags)
cmdTags ==
    <<"NEW", "SUB", "KEY", "ACK", "OFF", "DEL", "SEND", "PING",
      "IDS", "MSG", "END", "OK", "ERR", "PONG">>
cmdTagBytes ==
    [NEW |-> <<78, 69, 87>>, SUB |-> <<83, 85, 66>>, KEY |-> <<75, 69, 89>>,
     ACK |-> <<65, 67, 75>>, OFF |-> <<79, 70, 70>>, DEL |-> <<68, 69, 76>>,
     SEND |-> <<83, 69, 78, 68>>, PING |-> <<80, 73, 78, 71>>,
     IDS |-> <<73, 68, 83>>, MSG |-> <<77, 83, 71>>, END |-> <<69, 78, 68>>,
     OK |-> <<79, 75>>, ERR |-> <<69, 82, 82>>, PONG |-> <<80, 79, 78, 71>>]

smpErrors == <<"BLOCK", "CMD", "AUTH", "NO_MSG", "INTERNAL">>
errBytes ==
    [BLOCK |-> <<66, 76, 79, 67, 75>>, CMD |-> <<67, 77, 68>>, AUTH |-> <<65, 85, 84, 72>>,
     NO_MSG |-> <<78, 79, 95, 77, 83, 71>>, INTERNAL |-> <<73, 78, 84, 69, 82, 78, 65, 76>>]

smpCmdErrors == <<"PROHIBITED", "KEY_SIZE", "SYNTAX", "NO_AUTH", "HAS_AUTH", "NO_QUEUE">>
cmdErrBytes ==
    [PROHIBITED |-> <<80, 82, 79, 72, 73, 66, 73, 84, 69, 68>>,
     KEY_SIZE |-> <<75, 69, 89, 95, 83, 73, 90, 69>>, SYNTAX |-> <<83, 89, 78, 84, 65, 88>>,
     NO_AUTH |-> <<78, 79, 95, 65, 85, 84, 72>>, HAS_AUTH |-> <<72, 65, 83, 95, 65, 85, 84, 72>>,
     NO_QUEUE |-> <<78, 79, 95, 81, 85, 69, 85, 69>>]

\* encodeAscii("rsa:")
rsaPrefix == <<114, 115, 97, 58>>

\* unwords, unwordsN: the parts with one space between them
unwords(b1, b2) == b1 \o <<space>> \o b2
RECURSIVE unwordsNSkipEmpty(_)
unwordsNSkipEmpty(bs) ==
    IF Len(bs) = 1 THEN bs[1]
    ELSE IF bs[1] = << >> THEN unwordsNSkipEmpty(Tail(bs))
    ELSE bs[1] \o <<space>> \o unwordsNSkipEmpty(Tail(bs))
RECURSIVE unwordsN(_)
unwordsN(bs) == IF Len(bs) = 1 THEN bs[1] ELSE bs[1] \o <<space>> \o unwordsN(Tail(bs))

\* base64chars[c], and base64lookup[ch] with -1 for undefined
base64char(c) ==
    IF c < 26 THEN 65 + c
    ELSE IF c < 52 THEN 97 + (c - 26)
    ELSE IF c < 62 THEN 48 + (c - 52)
    ELSE IF c = 62 THEN 43 ELSE 47
base64lookupZero(ch) ==
    IF ch >= 65 /\ ch <= 90 THEN ch - 65
    ELSE IF ch >= 97 /\ ch <= 122 THEN ch - 97 + 26
    ELSE IF ch >= 48 /\ ch <= 57 THEN ch - 48 + 52
    ELSE IF ch = 43 THEN 62
    ELSE IF ch = 47 THEN 63 ELSE 0
base64lookup(ch) ==
    IF ch >= 65 /\ ch <= 90 THEN ch - 65
    ELSE IF ch >= 97 /\ ch <= 122 THEN ch - 97 + 26
    ELSE IF ch >= 48 /\ ch <= 57 THEN ch - 48 + 52
    ELSE IF ch = 43 THEN 62
    ELSE IF ch = 47 THEN 63 ELSE -1

\* a[i] in a bit operation: an index past the end reads as 0
byteAt(a, i) == IF i \in DOMAIN a THEN a[i] ELSE 0

\* encodeBase64
encodeBase64(a) ==
    LET len == Len(a)
        groups == (len + 2) \div 3
        b64 == [j \in 1..(4 * groups) |->
                  LET i == 3 * ((j - 1) \div 4) + 1
                      k == (j - 1) % 4
                  IN  base64char(
                        IF k = 0 THEN byteAt(a, i) \div 4
                        ELSE IF k = 1 THEN ((byteAt(a, i) % 4) * 16) + (byteAt(a, i + 1) \div 16)
                        ELSE IF k = 2 THEN ((byteAt(a, i + 1) % 16) * 4) + (byteAt(a, i + 2) \div 64)
                        ELSE byteAt(a, i + 2) % 64)]
    IN  [j \in 1..(4 * groups) |->
            IF (len % 3 # 0 /\ j = 4 * groups) \/ (len % 3 = 1 /\ j = 4 * groups - 1)
              THEN char_equal ELSE b64[j]]

\* decodeBase64: ok is FALSE for undefined
decodeBase64(b64) ==
    LET n == Len(b64)
        pad == IF n > 0 /\ b64[n] = char_equal
                 THEN (IF n > 1 /\ b64[n - 1] = char_equal THEN 2 ELSE 1)
                 ELSE 0
        len == n - pad
        bLen == ((n * 3) \div 4) - pad
        enc(i) == IF i <= len THEN base64lookup(b64[i]) ELSE 0
    IN  IF n % 4 # 0 THEN [ok |-> FALSE, val |-> empty]
        ELSE IF \E g \in 0..(((len + 3) \div 4) - 1) : \E k \in 1..4 : enc(4 * g + k) = -1
          THEN [ok |-> FALSE, val |-> empty]
        ELSE [ok |-> TRUE,
              val |-> [q \in 1..bLen |->
                         LET g == (q - 1) \div 3
                             k == (q - 1) % 3
                         IN  IF k = 0 THEN ((enc(4 * g + 1) * 4) + (enc(4 * g + 2) \div 16)) % 256
                             ELSE IF k = 1
                               THEN (((enc(4 * g + 2) % 16) * 16) + (enc(4 * g + 3) \div 4)) % 256
                             ELSE (((enc(4 * g + 3) % 4) * 64) + (enc(4 * g + 4) % 64)) % 256]]

\* Date values: milliseconds since the epoch, with Date.toISOString() in bytes
Dates ==
    { [ms |-> 0,
       iso |-> <<49, 57, 55, 48, 45, 48, 49, 45, 48, 49, 84, 48, 48, 58, 48, 48, 58,
                 48, 48, 46, 48, 48, 48, 90>>],
      [ms |-> 1,
       iso |-> <<49, 57, 55, 48, 45, 48, 49, 45, 48, 49, 84, 48, 48, 58, 48, 48, 58,
                 48, 48, 46, 48, 48, 49, 90>>] }
toISOString(ms) == (CHOOSE d \in Dates : d.ms = ms).iso

\* serializeMsg, serializePubKey
serializeMsg(msg) == <<encodeAscii(numberToString(Len(msg))), msg, empty>>
serializePubKey(key) == rsaPrefix \o encodeBase64(key)

\* serializeSMPCommand
serializeSMPCommand(c) ==
    IF c.cmd = "NEW" THEN unwords(cmdTagBytes.NEW, serializePubKey(c.rcvPubKey))
    ELSE IF c.cmd = "KEY" THEN unwords(cmdTagBytes.KEY, serializePubKey(c.sndPubKey))
    ELSE IF c.cmd = "SEND" THEN unwordsN(<<cmdTagBytes.SEND>> \o serializeMsg(c.msgBody))
    ELSE IF c.cmd = "IDS"
      THEN unwordsN(<<cmdTagBytes.IDS, encodeBase64(c.rcvId), encodeBase64(c.sndId)>>)
    ELSE IF c.cmd = "MSG"
      THEN unwordsN(<<cmdTagBytes.MSG, encodeBase64(c.msgId), toISOString(c.ts)>>
                    \o serializeMsg(c.msgBody))
    ELSE IF c.cmd = "ERR"
      THEN IF c.error.eType = "CMD"
             THEN unwordsN(<<cmdTagBytes.ERR, errBytes.CMD, cmdErrBytes[c.error.eSubType]>>)
             ELSE unwords(cmdTagBytes.ERR, errBytes[c.error.eType])
    ELSE cmdTagBytes[c.cmd]

\* ------------------------------------------------------------------ Parser
\* A parser is the bytes s and the position pos (0-based); an operation
\* gives [ok, val, pos], ok FALSE standing for the undefined / false result.
charAt(s, pos) == IF pos + 1 \in DOMAIN s THEN s[pos + 1] ELSE -1
pFail(pos) == [ok |-> FALSE, val |-> empty, pos |-> pos]

isDigit(c) == c >= 48 /\ c <= 57
isAlphaNum(c) == (c >= 48 /\ c <= 57) \/ (c >= 65 /\ c <= 90) \/ (c >= 97 /\ c <= 122)

\* Parser.takeWhile: the position after the longest run of matching bytes
RECURSIVE takeWhileDigit(_, _)
takeWhileDigit(s, pos) ==
    IF isDigit(charAt(s, pos)) THEN takeWhileDigit(s, pos + 1) ELSE pos
RECURSIVE takeWhileBase64(_, _)
takeWhileBase64(s, pos) ==
    IF isAlphaNum(charAt(s, pos)) \/ charAt(s, pos) = 43 \/ charAt(s, pos) = 47
      THEN takeWhileBase64(s, pos + 1) ELSE pos
RECURSIVE takeWhileWord(_, _)
takeWhileWord(s, pos) ==
    IF pos < Len(s) /\ charAt(s, pos) # space THEN takeWhileWord(s, pos + 1) ELSE pos

\* Parser.str
pStr(s, pos, b) ==
    IF \A i \in DOMAIN b : charAt(s, pos + i - 1) = b[i]
      THEN [ok |-> TRUE, val |-> b, pos |-> pos + Len(b)]
      ELSE pFail(pos)

\* Parser.space, Parser.end
pSpace(s, pos) ==
    IF charAt(s, pos) = space THEN [ok |-> TRUE, val |-> empty, pos |-> pos + 1] ELSE pFail(pos)
pEnd(s, pos) == pos >= Len(s)

\* Parser.someStr: the first tag, in the order of the list, found at pos
someStr(s, pos, tags, bytes) ==
    LET hit(k) == pStr(s, pos, bytes[tags[k]]).ok
    IN  IF \E k \in DOMAIN tags : hit(k)
          THEN LET k == CHOOSE k \in DOMAIN tags : hit(k) /\ \A j \in 1..(k - 1) : ~hit(j)
               IN  [ok |-> TRUE, val |-> tags[k], pos |-> pos + Len(bytes[tags[k]])]
          ELSE [ok |-> FALSE, val |-> "", pos |-> pos]

\* Parser.take
pTake(s, pos, len) ==
    IF pos + len <= Len(s)
      THEN [ok |-> TRUE, val |-> SubSeq(s, pos + 1, pos + len), pos |-> pos + len]
      ELSE pFail(pos)

\* Parser.decimal: val is the number read
RECURSIVE digitsNumber(_)
digitsNumber(ds) ==
    IF ds = empty THEN 0
    ELSE 10 * digitsNumber(SubSeq(ds, 1, Len(ds) - 1)) + (ds[Len(ds)] - 48)
pDecimal(s, pos) ==
    LET e == takeWhileDigit(s, pos)
    IN  IF e > pos
          THEN [ok |-> TRUE, val |-> digitsNumber(SubSeq(s, pos + 1, e)), pos |-> e]
          ELSE [ok |-> FALSE, val |-> 0, pos |-> pos]

\* Parser.base64
pBase64(s, pos) ==
    LET e1 == takeWhileBase64(s, pos)
        e2 == IF charAt(s, e1) = char_equal
                THEN (IF charAt(s, e1 + 1) = char_equal THEN e1 + 2 ELSE e1 + 1)
                ELSE e1
        d == decodeBase64(SubSeq(s, pos + 1, e2))
    IN  IF e2 > pos THEN [ok |-> d.ok, val |-> d.val, pos |-> e2] ELSE pFail(pos)

\* Parser.date: a word that is the text of a Date; val is the Date
pDate(s, pos) ==
    LET e == takeWhileWord(s, pos)
        w == SubSeq(s, pos + 1, e)
    IN  IF \E d \in Dates : d.iso = w
          THEN [ok |-> TRUE, val |-> (CHOOSE d \in Dates : d.iso = w).ms, pos |-> e]
          ELSE [ok |-> FALSE, val |-> 0, pos |-> e]

\* pubKeyP
pubKeyP(s, pos) ==
    LET r == pStr(s, pos, rsaPrefix)
    IN  IF r.ok THEN pBase64(s, r.pos) ELSE pFail(pos)

\* messageP: `(len = p.decimal()) && ...` stops at a length that is falsy
truthy(n) == n # 0
messageP(s, pos) ==
    LET len == pDecimal(s, pos)
        sp1 == pSpace(s, len.pos)
        msg == pTake(s, sp1.pos, len.val)
        sp2 == pSpace(s, msg.pos)
    IN  IF len.ok /\ truthy(len.val) /\ sp1.ok /\ msg.ok /\ sp2.ok
          THEN [ok |-> TRUE, val |-> msg.val, pos |-> sp2.pos]
          ELSE pFail(pos)

\* the commands cNEW .. cPONG construct
cNEW(key) == [cmd |-> "NEW", party |-> "R", rcvPubKey |-> key]
cKEY(key) == [cmd |-> "KEY", party |-> "R", sndPubKey |-> key]
cSEND(msg) == [cmd |-> "SEND", party |-> "S", msgBody |-> msg]
cIDS(rId, sId) == [cmd |-> "IDS", party |-> "B", rcvId |-> rId, sndId |-> sId]
cMSG(msgId, ts, msg) ==
    [cmd |-> "MSG", party |-> "B", msgId |-> msgId, ts |-> ts, msgBody |-> msg]
cERR(eType, eSubType) ==
    IF eType = "CMD"
      THEN [cmd |-> "ERR", party |-> "B", error |-> [eType |-> eType, eSubType |-> eSubType]]
      ELSE [cmd |-> "ERR", party |-> "B", error |-> [eType |-> eType]]
cNoArg(tag) ==
    [cmd |-> tag,
     party |-> IF tag \in {"SUB", "ACK", "OFF", "DEL"} THEN "R"
               ELSE IF tag = "PING" THEN "S" ELSE "B"]
undefined == [cmd |-> "undefined"]
pCmd(c, pos) == [val |-> c, pos |-> pos]

\* smpCmdParsers[cmd]: the command and the position reached
smpCmdParsers(tag, s, pos) ==
    IF tag \in {"NEW", "KEY"}
      THEN LET sp == pSpace(s, pos)
               key == pubKeyP(s, sp.pos)
           IN  IF sp.ok /\ key.ok
                 THEN pCmd(IF tag = "NEW" THEN cNEW(key.val) ELSE cKEY(key.val), key.pos)
                 ELSE pCmd(undefined, pos)
    ELSE IF tag = "SEND"
      THEN LET sp == pSpace(s, pos)
               msg == messageP(s, sp.pos)
           IN  IF sp.ok /\ msg.ok THEN pCmd(cSEND(msg.val), msg.pos) ELSE pCmd(undefined, pos)
    ELSE IF tag = "IDS"
      THEN LET sp1 == pSpace(s, pos)
               rId == pBase64(s, sp1.pos)
               sp2 == pSpace(s, rId.pos)
               sId == pBase64(s, sp2.pos)
           IN  IF sp1.ok /\ rId.ok /\ sp2.ok /\ sId.ok
                 THEN pCmd(cIDS(rId.val, sId.val), sId.pos)
                 ELSE pCmd(undefined, pos)
    ELSE IF tag = "MSG"
      THEN LET sp1 == pSpace(s, pos)
               msgId == pBase64(s, sp1.pos)
               sp2 == pSpace(s, msgId.pos)
               ts == pDate(s, sp2.pos)
               sp3 == pSpace(s, ts.pos)
               msg == messageP(s, sp3.pos)
           IN  IF sp1.ok /\ msgId.ok /\ sp2.ok /\ ts.ok /\ sp3.ok /\ msg.ok
                 THEN pCmd(cMSG(msgId.val, ts.val, msg.val), msg.pos)
                 ELSE pCmd(undefined, pos)
    ELSE IF tag = "ERR"
      THEN LET sp1 == pSpace(s, pos)
               err == someStr(s, sp1.pos, smpErrors, errBytes)
               sp2 == pSpace(s, err.pos)
               cmdErr == someStr(s, sp2.pos, smpCmdErrors, cmdErrBytes)
           IN  IF sp1.ok /\ err.ok
                 THEN IF err.val = "CMD"
                        THEN IF sp2.ok /\ cmdErr.ok
                               THEN pCmd(cERR("CMD", cmdErr.val), cmdErr.pos)
                               ELSE pCmd(undefined, pos)
                        ELSE pCmd(cERR(err.val, ""), err.pos)
                 ELSE pCmd(undefined, pos)
    ELSE pCmd(cNoArg(tag), pos)

\* parseSMPCommand: smpCommandP, then the end of the input
parseSMPCommand(s) ==
    LET cmd == someStr(s, 0, cmdTags, cmdTagBytes)
        r == smpCmdParsers(cmd.val, s, cmd.pos)
    IN  IF cmd.ok /\ r.val # undefined /\ pEnd(s, r.pos) THEN r.val ELSE undefined

\* Parser.word: the bytes up to the next space, or the rest when there is none
pWord(s, pos) ==
    LET e == takeWhileWord(s, pos)
    IN  [ok |-> TRUE, val |-> SubSeq(s, pos + 1, e), pos |-> e]

\* p.try(() => p.base64()): the position is restored when base64 gives undefined
pTryBase64(s, pos) ==
    LET r == pBase64(s, pos)
    IN  IF r.ok THEN r ELSE pFail(pos)

\* smpCommandP: the command at pos; what follows it is not looked at
smpCommandP(s, pos) ==
    LET cmd == someStr(s, pos, cmdTags, cmdTagBytes)
    IN  IF cmd.ok THEN smpCmdParsers(cmd.val, s, cmd.pos) ELSE pCmd(undefined, pos)

\* smpCmdError, and badBlock as a transmission in bytes
smpCmdError(eSubType) == [eType |-> "CMD", eSubType |-> eSubType]
badBlockBytes == [corrId |-> empty, queueId |-> empty, error |-> [eType |-> "BLOCK"]]

\* tQueueError: "" stands for undefined
tQueueErrorDefaultPasses(queueId, cmd) ==
    IF cmd \in {"IDS", "PONG"} THEN (IF Len(queueId) > 0 THEN "HAS_AUTH" ELSE "") ELSE ""
tQueueErrorErrNeedsQueue(queueId, cmd) ==
    IF cmd \in {"IDS", "PONG"} THEN (IF Len(queueId) > 0 THEN "HAS_AUTH" ELSE "")
    ELSE IF Len(queueId) = 0 THEN "NO_QUEUE" ELSE ""
tQueueError(queueId, cmd) ==
    IF cmd \in {"IDS", "PONG"} THEN (IF Len(queueId) > 0 THEN "HAS_AUTH" ELSE "")
    ELSE IF cmd = "ERR" THEN ""
    ELSE IF Len(queueId) = 0 THEN "NO_QUEUE" ELSE ""

\* parseSMPTransmission
parseSMPTransmission(s) ==
    LET sp0 == pSpace(s, 0)
        corrId == pWord(s, sp0.pos)
        sp1 == pSpace(s, corrId.pos)
        q == pTryBase64(s, sp1.pos)
        queueId == IF q.ok THEN q.val ELSE empty
        sp2 == pSpace(s, q.pos)
        command == smpCommandP(s, sp2.pos).val
    IN  IF sp0.ok /\ sp1.ok /\ sp2.ok
          THEN IF command # undefined
                 THEN IF command.party = "B"
                        THEN IF tQueueError(queueId, command.cmd) # ""
                               THEN [corrId |-> corrId.val, queueId |-> queueId,
                                     error |-> smpCmdError(tQueueError(queueId, command.cmd))]
                               ELSE [corrId |-> corrId.val, queueId |-> queueId,
                                     command |-> command]
                        ELSE [corrId |-> corrId.val, queueId |-> queueId,
                              error |-> smpCmdError("PROHIBITED")]
                 ELSE [corrId |-> corrId.val, queueId |-> queueId,
                       error |-> smpCmdError("SYNTAX")]
          ELSE badBlockBytes

\* the codec of a client that serializes and parses nothing
noCodec == [pc |-> "idle"]

\* ------------------------------------------------------------ the handshake
\* errors thrown in the handshake
noError == [type |-> "none", msg |-> ""]
TransportError(msg) == [type |-> "TransportError", msg |-> msg]
Error(msg) == [type |-> "Error", msg |-> msg]

noFrame == [kind |-> "none"]
noKey == [baseIV |-> empty, counter |-> 0]

\* DataView.getUint32 / getUint16 at a byte offset (bytes of 8 bits), big-endian
getUint32(a, off) == ((a[off + 1] * 256 + a[off + 2]) * 256 + a[off + 3]) * 256 + a[off + 4]
getUint16(a, off) == a[off + 1] * 256 + a[off + 2]

\* WSTransport.readBinary(size) on the frame read from the socket queue
readBinary(f, size) ==
    IF f.kind = "text" THEN TransportError("invalid text block: expected binary")
    ELSE IF f.len # size THEN TransportError("invalid block size")
    ELSE noError

\* parseServerHeader
parseServerHeader(a) ==
    IF Len(a) # 8 THEN [error |-> TransportError("bad header size"), blockSize |-> 0, keySize |-> 0]
    ELSE IF getUint16(a, 4) # binaryRsaTransport
      THEN [error |-> TransportError("bad transport mode"), blockSize |-> 0, keySize |-> 0]
    ELSE [error |-> noError, blockSize |-> getUint32(a, 0), keySize |-> getUint16(a, 6)]

\* getHeaderAndPublicKey_1_2: the check of the announced block size
badBlockSizeExclusive(blockSize) ==
    blockSize <= transportBlockSize \/ blockSize >= maxTransportBlockSize
badBlockSize(blockSize) ==
    blockSize < transportBlockSize \/ blockSize > maxTransportBlockSize

\* C.sha256 of a raw key: 32 bytes that depend on the key
sha256(raw) == [i \in 1..32 |-> IF raw = "k1" THEN i ELSE 33 - i]

\* validateKeyHash_2: TRUE when the hash matches
validateKeyHashNoLength(rawKey, keyHash) ==
    LET hash == sha256(rawKey)
    IN  \A i \in DOMAIN keyHash : i \in DOMAIN hash /\ keyHash[i] = hash[i]
validateKeyHash_2(rawKey, keyHash) ==
    LET hash == sha256(rawKey)
    IN  /\ Len(keyHash) = 32 /\ Len(hash) = 32
        /\ \A i \in DOMAIN keyHash : keyHash[i] = hash[i]

\* a.subarray(0, i) with i at the first space (at most 50 characters)
RECURSIVE beforeSpace(_, _)
beforeSpace(s, n) ==
    IF n = 0 \/ s = empty \/ Head(s) = " " THEN empty
    ELSE <<Head(s)>> \o beforeSpace(Tail(s), n - 1)

\* String.split("."): the pieces between the dots
RECURSIVE split(_)
split(s) ==
    IF \A i \in DOMAIN s : s[i] # "." THEN <<s>>
    ELSE LET d == CHOOSE i \in DOMAIN s : s[i] = "." /\ \A j \in 1..(i - 1) : s[j] # "."
         IN  <<SubSeq(s, 1, d - 1)>> \o split(SubSeq(s, d + 1, Len(s)))

\* +n on a string: a string of decimal digits is its value, the empty string
\* is 0, and a string with another character is NaN
RECURSIVE digitsValue(_)
digitsValue(s) ==
    IF s = empty THEN 0
    ELSE 10 * digitsValue(SubSeq(s, 1, Len(s) - 1)) + (charCodeAt(s[Len(s)]) - 48)
isNaN(s) == \E i \in DOMAIN s : \A k \in DOMAIN DigitChars : DigitChars[k] # s[i]

\* parseSMPVersion
parseSMPVersion(text) ==
    LET version == split(beforeSpace(text, 50))
    IN  IF Len(version) = 4 /\ \A i \in DOMAIN version : ~isNaN(version[i])
          THEN [error |-> noError, version |-> [i \in 1..4 |-> digitsValue(version[i])]]
          ELSE [error |-> Error("cannot parse version"), version |-> empty]

\* checkVersion: TRUE when the server's version is compatible
checkVersionThree(v) ==
    ~(v[1] > currentSMPVersion[1]
      \/ (v[1] = currentSMPVersion[1] /\ v[2] > currentSMPVersion[2])
      \/ (v[1] = currentSMPVersion[1] /\ v[2] = currentSMPVersion[2]
            /\ v[3] > currentSMPVersion[3]))
checkVersion(v) ==
    ~(v[1] > currentSMPVersion[1]
      \/ (v[1] = currentSMPVersion[1] /\ v[2] > currentSMPVersion[2]))

\* clientHandshake: its stages in program order; "hash" is skipped when the
\* caller gives no keyHash
clientHandshakeKeysFirst ==
    <<"keys", "send", "header", "key", "hash", "decode", "welcome", "version", "done">>
clientHandshake ==
    <<"header", "key", "hash", "decode", "keys", "send", "welcome", "version", "done">>
stageAfter(pc) == clientHandshake[(CHOOSE i \in DOMAIN clientHandshake : clientHandshake[i] = pc) + 1]

hsFail(h, e) == [h EXCEPT !.pc = "failed", !.error = e]
hsStage(h, stage) == [h EXCEPT !.steps = Append(@, stage)]

\* the state of the client, which the handshake precedes
clientVars == <<clientCorrId, sentCommands, connected, calls, futures, writes, channel,
                conn, tq, recvd, loop, results, msgQ, enqueued, registered, jobs,
                lastFrame, codec, wsLoop>>

\* C.randomIV(): the base IVs a session can draw
SndIV == [i \in 1..ivSize |-> i % ByteBase]
RcvIV == [i \in 1..ivSize |-> (i \div 2) % ByteBase]
RandomIVs == {SndIV, RcvIV}

\* what the broker can send first: a text frame, a header of 7 or 9 bytes, and
\* headers of 8 bytes with block sizes 4095, 4096, 65536, 65537, transport
\* modes 0 and 1, and key size 294
HeaderFrames ==
    {[kind |-> "text", len |-> 8, bytes |-> empty]}
    \cup {[kind |-> "binary", len |-> Len(b), bytes |-> b] :
            b \in {<<0, 0, 16, 0, 0, 0, 1>>, <<0, 0, 16, 0, 0, 0, 1, 38, 0>>}}
    \cup {[kind |-> "binary", len |-> 8, bytes |-> bs \o mode \o <<1, 38>>] :
            bs \in {<<0, 0, 15, 255>>, <<0, 0, 16, 0>>, <<0, 1, 0, 0>>, <<0, 1, 0, 1>>},
            mode \in {<<0, 0>>, <<0, 1>>}}

\* the second frame: text, or binary of 293 or 294 bytes holding one of two
\* keys, which decodes as an RSA public key or does not
KeyFrames ==
    {[kind |-> "text", len |-> 294, raw |-> "k1", valid |-> TRUE]}
    \cup {[kind |-> "binary", len |-> l, raw |-> r, valid |-> v] :
            l \in {293, 294}, r \in {"k1", "k2"}, v \in BOOLEAN}

\* the keyHash the caller passes: none, the hash of k1, that hash with its
\* last byte changed, its first 31 bytes, and it with one more byte
KeyHashInputs ==
    {[given |-> FALSE, bytes |-> empty]}
    \cup {[given |-> TRUE, bytes |-> b] :
            b \in {sha256("k1"), [sha256("k1") EXCEPT ![32] = 0],
                   SubSeq(sha256("k1"), 1, 31), sha256("k1") \o <<0>>}}

\* the plaintext of the welcome block
VersionTexts ==
    { <<"0", ".", "4", ".", "1", ".", "0", " ">>,
      <<"0", ".", "4", ".", "9", ".", "9", " ">>,
      <<"0", ".", "5", ".", "0", ".", "0", " ">>,
      <<"0", ".", "1", "0", ".", "0", ".", "0", " ">>,
      <<"1", ".", "0", ".", "0", ".", "0", " ">>,
      <<"0", ".", "3", ".", "7", ".", "2", " ">>,
      <<"0", ".", "4", ".", "1", " ">>,
      <<"0", ".", "x", ".", "1", ".", "0", " ">>,
      <<"0", ".", "4", ".", ".", "0", " ">> }

\* the third frame the broker sends: text, or binary of blockSize or one byte
\* less, which decrypts under rcvKey or does not
WelcomeFrames ==
    {[kind |-> "text", len |-> hs.blockSize, auth |-> TRUE, text |-> empty]}
    \cup {[kind |-> "binary", len |-> l, auth |-> a, text |-> t] :
            l \in {hs.blockSize - 1, hs.blockSize}, a \in BOOLEAN, t \in VersionTexts}

\* getHeaderAndPublicKey_1_2: the header is read, parsed and checked
ReadHeader(f) ==
    /\ hs.pc = "header"
    /\ LET h1 == hsStage([hs EXCEPT !.header = f], "header")
           e == readBinary(f, serverHeaderSize)
           h == parseServerHeader(f.bytes)
       IN  hs' = IF e # noError THEN hsFail(h1, e)
                 ELSE IF h.error # noError THEN hsFail(h1, h.error)
                 ELSE IF badBlockSize(h.blockSize)
                   THEN hsFail(h1, TransportError("bad block size"))
                 ELSE [h1 EXCEPT !.pc = stageAfter("header"),
                                 !.blockSize = h.blockSize, !.keySize = h.keySize]
    /\ UNCHANGED <<clientVars, sndKey, rcvKey>>

\* getHeaderAndPublicKey_1_2: the key frame is read
ReadKey(f) ==
    /\ hs.pc = "key"
    /\ LET h1 == hsStage([hs EXCEPT !.key = f], "key")
           e == readBinary(f, hs.keySize)
       IN  hs' = IF e # noError THEN hsFail(h1, e)
                 ELSE [h1 EXCEPT !.pc = IF hs.keyHash.given THEN stageAfter("key")
                                        ELSE stageAfter("hash")]
    /\ UNCHANGED <<clientVars, sndKey, rcvKey>>

\* getHeaderAndPublicKey_1_2: `if (keyHash !== undefined) await validateKeyHash_2`
ValidateKeyHash ==
    /\ hs.pc = "hash"
    /\ LET h1 == hsStage(hs, "hash")
       IN  hs' = IF validateKeyHash_2(hs.key.raw, hs.keyHash.bytes)
                   THEN [h1 EXCEPT !.pc = stageAfter("hash")]
                   ELSE hsFail(h1, TransportError("key hash does not match"))
    /\ UNCHANGED <<clientVars, sndKey, rcvKey>>

\* getHeaderAndPublicKey_1_2: C.decodePublicKey(rawKey, KeyType.Encrypt)
DecodePublicKey ==
    /\ hs.pc = "decode"
    /\ LET h1 == hsStage(hs, "decode")
       IN  hs' = IF hs.key.valid THEN [h1 EXCEPT !.pc = stageAfter("decode")]
                 ELSE hsFail(h1, [type |-> "DataError", msg |-> "importKey"])
    /\ UNCHANGED <<clientVars, sndKey, rcvKey>>

\* getClientHandshake_3: two session keys with random base IVs and counter 0
getClientHandshake_3(s, r) ==
    /\ hs.pc = "keys"
    /\ sndKey' = [baseIV |-> s, counter |-> 0]
    /\ rcvKey' = [baseIV |-> r, counter |-> 0]
    /\ hs' = [hsStage(hs, "keys") EXCEPT !.pc = stageAfter("keys"), !.keysGenerated = TRUE]
    /\ UNCHANGED clientVars

\* sendEncryptedKeys_4: the keys, wrapped with C.encryptOAEP, go out as one frame
sendEncryptedKeys_4 ==
    /\ hs.pc = "send"
    /\ hs' = [hsStage(hs, "send") EXCEPT !.pc = stageAfter("send"), !.written = @ + 1]
    /\ UNCHANGED <<clientVars, sndKey, rcvKey>>

\* getWelcome_6: tGetEncrypted reads a block of blockSize bytes, decryptBlock
\* takes the receive IV and decrypts, parseSMPVersion parses the plaintext
getWelcome_6(f) ==
    /\ hs.pc = "welcome"
    /\ LET h1 == hsStage([hs EXCEPT !.welcome = f], "welcome")
           e == readBinary(f, hs.blockSize)
           p == parseSMPVersion(f.text)
       IN  /\ rcvKey' = IF e # noError THEN rcvKey ELSE nextIV(rcvKey).key
           /\ hs' = IF e # noError THEN hsFail(h1, e)
                    ELSE IF ~f.auth THEN hsFail(h1, [type |-> "OperationError", msg |-> "decrypt"])
                    ELSE IF p.error # noError THEN hsFail(h1, p.error)
                    ELSE [h1 EXCEPT !.pc = stageAfter("welcome"), !.version = p.version]
    /\ UNCHANGED <<clientVars, sndKey>>

\* clientHandshake: checkVersion(...), then `return th`
CheckVersion ==
    /\ hs.pc = "version"
    /\ LET h1 == hsStage(hs, "version")
       IN  hs' = IF checkVersion(hs.version) THEN [h1 EXCEPT !.pc = stageAfter("version")]
                 ELSE hsFail(h1, TransportError("incompatible server version"))
    /\ UNCHANGED <<clientVars, sndKey, rcvKey>>

\* a handshake that succeeded: no keyHash, block size 4096, version 0.4.1.0
HsDone ==
    [pc |-> "done", error |-> noError,
     keyHash |-> [given |-> FALSE, bytes |-> empty],
     header |-> [kind |-> "binary", len |-> 8, bytes |-> <<0, 0, 16, 0, 0, 0, 1, 38>>],
     key |-> [kind |-> "binary", len |-> 294, raw |-> "k1", valid |-> TRUE],
     welcome |-> [kind |-> "binary", len |-> 4096, auth |-> TRUE,
                  text |-> <<"0", ".", "4", ".", "1", ".", "0", " ">>],
     blockSize |-> 4096, keySize |-> 294, keysGenerated |-> TRUE, written |-> 1,
     steps |-> <<"header", "key", "decode", "keys", "send", "welcome", "version">>,
     version |-> <<0, 4, 1, 0>>]

\* before WSTransport.connect resolves: nothing read, no keys
InitHandshake ==
    /\ clientCorrId = 0
    /\ sentCommands = << >>
    /\ connected = TRUE
    /\ calls = << >>
    /\ futures = << >>
    /\ writes = << >>
    /\ sndKey = noKey
    /\ rcvKey = noKey
    /\ lastFrame = noFrame
    /\ codec = noCodec
    /\ wsLoop = "run"
    /\ hs \in {[pc |-> clientHandshake[1], error |-> noError, keyHash |-> k,
                header |-> noFrame, key |-> noFrame, welcome |-> noFrame,
                blockSize |-> 0, keySize |-> 0, keysGenerated |-> FALSE, written |-> 0,
                steps |-> empty, version |-> empty] : k \in KeyHashInputs}
    /\ channel = << >>
    /\ conn = "open"
    /\ tq = << >>
    /\ recvd = 0
    /\ loop = "await"
    /\ results = << >>
    /\ msgQ = [buf |-> << >>, producers |-> << >>, closed |-> FALSE]
    /\ enqueued = << >>
    /\ registered = {}
    /\ jobs = << >>


\* -------------------------------------------------------------------- Init
Init ==
    /\ clientCorrId = 0
    /\ sentCommands = << >>
    /\ connected = TRUE
    /\ calls = << >>
    /\ futures = << >>
    /\ writes = << >>
    /\ sndKey = [baseIV |-> SndIV, counter |-> 0]
    /\ rcvKey = [baseIV |-> RcvIV, counter |-> 1]
    /\ lastFrame = [kind |-> "binary", len |-> transportBlockSize, auth |-> TRUE]
    /\ hs = HsDone
    /\ codec = noCodec
    /\ wsLoop = "run"
    /\ channel = << >>
    /\ conn = "open"
    /\ tq = << >>
    /\ recvd = 0
    /\ loop = "await"
    /\ results = << >>
    /\ msgQ = [buf |-> << >>, producers |-> << >>, closed |-> FALSE]
    /\ enqueued = << >>
    /\ registered = {}
    /\ jobs = << >>

\* ---------------------------------------------------------- sendSMPCommand
\* this.transport.write(t).then(noop, noop): the outcome of the write, a
\* rejection included, is discarded and the request's promise is left as it is
noopRejectsRequest(f, outcome) ==
    IF outcome \in {"failed", "timeout"}
      THEN [f EXCEPT !.state = "rejected", !.value = [error |-> outcome],
                     !.settles = @ + 1]
      ELSE f
noop(f, outcome) == f

\* One synchronous run: allocate the corrId, start transport.write (which
\* runs to its first await: C.sign when a key is given, else nextIV and the
\* start of encryptAES), then register the pending request.
sendSMPCommand(c) ==
    /\ jobs = << >>
    /\ LET a == corrIdAlloc(clientCorrId)
           i == Len(calls) + 1
           w == IF c.key
                  THEN [pc |-> "sign", counter |-> -1, iv |-> empty, key |-> sndKey]
                  ELSE tPutEncrypted(sndKey, c.len)
       IN  /\ clientCorrId' = a.next
           /\ calls' = Append(calls, [cmd |-> c.cmd, key |-> c.key, queueId |-> c.queueId,
                                      len |-> c.len, corrId |-> encodeAscii(a.corrId)])
           /\ sndKey' = w.key
           /\ writes' = Append(writes, [pc |-> w.pc, counter |-> w.counter, iv |-> w.iv])
           /\ channel' = IF w.pc = "sent"
                           THEN sockSend(channel, Block(i, encodeAscii(a.corrId), w.counter))
                           ELSE channel
           /\ sentCommands' = SentSet(sentCommands, a.corrId,
                                      [queueId |-> c.queueId, call |-> i])
           /\ registered' = registered \cup {a.corrId}
           /\ futures' = Append(futures, [state |-> "pending", value |-> [cmd |-> "none"],
                                       settles |-> 0])
           /\ results' = Append(results, "pending")
    /\ UNCHANGED <<rcvKey, lastFrame, hs, codec, wsLoop>>
    /\ UNCHANGED <<connected, conn, tq, recvd, loop, msgQ, enqueued, jobs>>

\* C.sign completes: SMPTransport.write resumes, frames the transmission and
\* calls tPutEncrypted, which takes the counter and starts encryptAES
SignDone(i) ==
    /\ jobs = << >>
    /\ i \in DOMAIN writes
    /\ writes[i].pc = "sign"
    /\ LET w == tPutEncrypted(sndKey, calls[i].len)
       IN  /\ sndKey' = w.key
           /\ writes' = [writes EXCEPT ![i] = [pc |-> w.pc, counter |-> w.counter,
                                                iv |-> w.iv]]
           /\ channel' = IF w.pc = "sent"
                           THEN sockSend(channel, Block(i, calls[i].corrId, w.counter))
                           ELSE channel
           /\ futures' = [futures EXCEPT ![i] = noop(@, w.pc)]
    /\ UNCHANGED <<rcvKey, lastFrame, hs, codec, wsLoop>>
    /\ UNCHANGED <<clientCorrId, sentCommands, connected, calls, conn, tq,
                   recvd, loop, results, msgQ, enqueued, registered, jobs>>

\* crypto.subtle.encrypt completes: tPutEncrypted resumes with conn.write
EncryptDone(i) ==
    /\ jobs = << >>
    /\ i \in DOMAIN writes
    /\ writes[i].pc = "encrypt"
    /\ writes' = [writes EXCEPT ![i].pc = "sent"]
    /\ channel' = sockSend(channel, Block(i, calls[i].corrId, writes[i].counter))
    /\ UNCHANGED <<rcvKey, lastFrame, hs, codec, wsLoop>>
    /\ UNCHANGED <<clientCorrId, sentCommands, connected, calls, futures, sndKey, conn,
                   tq, recvd, loop, results, msgQ, enqueued, registered, jobs>>

\* WSTransport.write after sock.send: withTimeout's race is lost to the timer
\* while bufferedAmount has not come down, and the write rejects with
\* Error("timeout"); the frame has been handed to the socket
WriteTimeout(i) ==
    /\ jobs = << >>
    /\ i \in DOMAIN writes
    /\ writes[i].pc = "sent"
    /\ writes' = [writes EXCEPT ![i].pc = "timeout"]
    /\ futures' = [futures EXCEPT ![i] = noop(@, "timeout")]
    /\ UNCHANGED <<rcvKey, lastFrame, hs, codec, wsLoop>>
    /\ UNCHANGED <<clientCorrId, sentCommands, connected, calls, sndKey, channel, conn,
                   tq, recvd, loop, results, msgQ, enqueued, registered, jobs>>

\* ------------------------------------------------------------ the transport
\* what parseSMPTransmission can hand to the transport's queue; `seq` stands
\* for the content of a command (its msgId, timestamp and body)
badBlock == [corrId |-> empty, queueId |-> "", error |-> "BLOCK"]

IssuedCorrIds == {calls[i].corrId : i \in DOMAIN calls} \cup {empty}

\* what the transport can deliver: for each corrId issued so far a response
\* (OK, MSG, ERR) or a command error, and with the empty corrId the pushes
\* MSG (of either queue) and END, a stray OK, and the bad block
Transmissions(n) ==
    {[corrId |-> c, queueId |-> "q1", command |-> [cmd |-> b, seq |-> n]] :
        c \in IssuedCorrIds \ {empty}, b \in {"OK", "MSG"}}
    \cup {[corrId |-> c, queueId |-> "q1",
           command |-> [cmd |-> "ERR", error |-> "AUTH", seq |-> n]] :
            c \in IssuedCorrIds \ {empty}}
    \cup {[corrId |-> c, queueId |-> "q1", error |-> "CMD SYNTAX"] :
            c \in IssuedCorrIds \ {empty}}
    \cup {[corrId |-> empty, queueId |-> q, command |-> [cmd |-> "MSG", seq |-> n]] :
            q \in QueueIds}
    \cup {[corrId |-> empty, queueId |-> "q1", command |-> [cmd |-> b, seq |-> n]] :
            b \in {"OK", "END"}}
    \cup {badBlock}

loopJob == [type |-> "loop", call |-> 0]
contJob(i) == [type |-> "cont", call |-> i]

\* runClient arriving at `for await (const t of transport)`: it resumes in a
\* later microtask when an item (or the end of the stream) is there, and
\* stays parked otherwise
LoopNext(q) == IF q # << >> \/ wsLoop = "done" THEN <<loopJob>> ELSE << >>
LoopPc(q) == IF q # << >> \/ wsLoop = "done" THEN "run" ELSE "await"

\* processWSQueue on the next frame of the socket: a text frame or a frame of
\* another size puts badBlock on the transport queue; a frame of blockSize
\* bytes is decrypted (decryptBlock takes the receive IV) and parsed; when
\* decryptAES rejects, the await throws, processWSQueue ends rejected (connect
\* discards that with noop) and nothing is put on the transport queue
goodFrameAnySize(f) == f.kind = "binary"
goodFrame(f) == ~(f.kind = "text" \/ f.len # hs.blockSize)

processWSQueue(f) ==
    /\ jobs = << >>
    /\ conn # "closed"
    /\ wsLoop = "run"
    /\ recvd' = recvd + 1
    /\ lastFrame' = [kind |-> f.kind, len |-> f.len, auth |-> f.auth]
    /\ IF ~goodFrame(f)
       THEN /\ rcvKey' = rcvKey
            /\ tq' = Append(tq, badBlock)
            /\ wsLoop' = wsLoop
       ELSE IF f.auth
       THEN /\ rcvKey' = nextIV(rcvKey).key
            /\ tq' = Append(tq, f.t)
            /\ wsLoop' = wsLoop
       ELSE /\ rcvKey' = nextIV(rcvKey).key
            /\ tq' = tq
            /\ wsLoop' = "failed"
    /\ jobs' = IF loop = "await" /\ tq' # tq THEN <<loopJob>> ELSE << >>
    /\ loop' = IF loop = "await" /\ tq' # tq THEN "run" ELSE loop
    /\ UNCHANGED <<clientCorrId, sentCommands, connected, calls, futures, writes, sndKey,
                   channel, conn, results, msgQ, enqueued, registered, hs, codec>>

\* a frame of blockSize bytes whose plaintext parses to t
blockOf(t) == [kind |-> "binary", len |-> hs.blockSize, auth |-> TRUE, t |-> t]

\* processWSQueue on a well-sized block: its transmission reaches the queue
Deliver(t) == processWSQueue(blockOf(t))

\* SMPClient.disconnect: transport.close() calls sock.close()
disconnect ==
    /\ jobs = << >>
    /\ conn = "open"
    /\ conn' = "closing"
    /\ UNCHANGED <<rcvKey, lastFrame, hs, codec, wsLoop>>
    /\ UNCHANGED <<clientCorrId, sentCommands, connected, calls, futures, writes, sndKey,
                   channel, tq, recvd, loop, results, msgQ, enqueued, registered, jobs>>

\* sock.onclose (after disconnect, or the peer closed): the socket queue is
\* closed; processWSQueue, when it still iterates, leaves its loop and closes
\* the transport queue
OnClose ==
    /\ jobs = << >>
    /\ conn # "closed"
    /\ conn' = "closed"
    /\ wsLoop' = IF wsLoop = "run" THEN "done" ELSE wsLoop
    /\ jobs' = IF loop = "await" /\ wsLoop = "run" THEN <<loopJob>> ELSE << >>
    /\ loop' = IF loop = "await" /\ wsLoop = "run" THEN "run" ELSE loop
    /\ UNCHANGED <<rcvKey, lastFrame, hs, codec>>
    /\ UNCHANGED <<clientCorrId, sentCommands, connected, calls, futures, writes, sndKey,
                   channel, tq, recvd, results, msgQ, enqueued, registered>>

\* ------------------------------------------------------------------- msgQ
QRoom(q) == Len(q.buf) < MsgQSize /\ q.producers = << >>

\* ABQueue.enqueue: fails when closed, appends when there is room, else the
\* producer (0: runClient, i: the wrapper of call i) is suspended behind the
\* producers already waiting
QEnqueue(q, who, item) ==
    IF q.closed THEN q
    ELSE IF QRoom(q) THEN [q EXCEPT !.buf = Append(@, item)]
    ELSE [q EXCEPT !.producers = Append(@, [who |-> who, item |-> item])]

QEntered(q, item) == IF ~q.closed /\ QRoom(q) THEN <<item>> ELSE << >>

\* ---------------------------------------------------------------- runClient
\* lines 266-273: how a hit settles the waiter
SettleErrResolved(resp) ==
    IF "error" \in DOMAIN resp THEN [state |-> "rejected", value |-> [error |-> resp.error]]
    ELSE [state |-> "resolved", value |-> resp.command]
Settle(resp) ==
    IF "error" \in DOMAIN resp THEN [state |-> "rejected", value |-> [error |-> resp.error]]
    ELSE IF "command" \in DOMAIN resp
      THEN IF resp.command.cmd = "ERR"
             THEN [state |-> "rejected", value |-> [error |-> resp.command.error]]
             ELSE [state |-> "resolved", value |-> resp.command]
      ELSE [state |-> "rejected", value |-> [error |-> "undefined"]]

\* line 276: what a miss does not enqueue
DroppedOnlyErrors(resp) == "error" \in DOMAIN resp \/ "command" \notin DOMAIN resp
Dropped(resp) ==
    \/ "error" \in DOMAIN resp
    \/ "command" \notin DOMAIN resp
    \/ ~(resp.command.cmd = "END" \/ resp.command.cmd = "MSG")

ServerMessage(queueId, command) == [server |-> "srv", queueId |-> queueId, command |-> command]

\* the microtasks a hit leaves behind: the waiter's continuation (queued by
\* resolve/reject), then the loop's own resumption for the next item
AfterSettleLoopFirst(js, i, q) == js \o LoopNext(q) \o <<contJob(i)>>
AfterSettle(js, i, q) == js \o <<contJob(i)>> \o LoopNext(q)

\* one iteration of the for-await loop, or its end
RunLoop ==
    /\ jobs # << >>
    /\ Head(jobs).type = "loop"
    /\ IF tq = << >>
       THEN \* the transport queue is closed and drained
            /\ connected' = FALSE
            /\ loop' = "done"
            /\ jobs' = Tail(jobs)
            /\ UNCHANGED <<sentCommands, futures, tq, msgQ, enqueued>>
       ELSE LET resp == Head(tq)
                cId == decodeAscii(resp.corrId)
            IN  /\ tq' = Tail(tq)
                /\ IF cId \in DOMAIN sentCommands
                   THEN LET req == sentCommands[cId]
                            s == Settle(resp)
                        IN  /\ sentCommands' = SentDelete(sentCommands, cId)
                            /\ futures' = [futures EXCEPT ![req.call] =
                                   [state |-> s.state, value |-> s.value,
                                    settles |-> @.settles + 1]]
                            /\ jobs' = AfterSettle(Tail(jobs), req.call, tq')
                            /\ loop' = LoopPc(tq')
                            /\ UNCHANGED <<connected, msgQ, enqueued>>
                   ELSE IF Dropped(resp)
                   THEN /\ jobs' = Tail(jobs) \o LoopNext(tq')
                        /\ loop' = LoopPc(tq')
                        /\ UNCHANGED <<sentCommands, futures, connected, msgQ, enqueued>>
                   ELSE LET m == ServerMessage(resp.queueId, resp.command)
                        IN  /\ msgQ' = QEnqueue(msgQ, 0, m)
                            /\ enqueued' = enqueued \o QEntered(msgQ, m)
                            /\ loop' = IF msgQ.closed THEN "failed"
                                       ELSE IF QRoom(msgQ) THEN LoopPc(tq')
                                       ELSE "enqueue"
                            /\ jobs' = IF ~msgQ.closed /\ QRoom(msgQ)
                                         THEN Tail(jobs) \o LoopNext(tq')
                                         ELSE Tail(jobs)
                            /\ UNCHANGED <<sentCommands, futures, connected>>
    /\ UNCHANGED <<rcvKey, lastFrame, hs, codec, wsLoop>>
    /\ UNCHANGED <<clientCorrId, calls, writes, sndKey, channel, conn, recvd, results,
                   registered>>

\* ------------------------------------------------------- the calling wrappers
\* createSMPQueue (lines 296-301), okSMPCommand / sendSMPMessage (lines
\* 312-315, 341-344) and msgSMPCommand (lines 329-339) after
\* `await this.sendSMPCommand(...)`: "error" is the rejection of the awaited
\* promise, passed on with its value
WrapperResultAnyResponse(cmd, f) ==
    IF f.state = "rejected" THEN "error" ELSE "ok"
WrapperResult(cmd, f) ==
    IF f.state = "rejected" THEN "error"
    ELSE IF cmd = "NEW" THEN (IF f.value.cmd = "IDS" THEN "ok" ELSE "unexpected response")
    ELSE IF f.value.cmd = "OK" THEN "ok" ELSE "unexpected response"

\* msgSMPCommand, case "MSG": the wrappers of SUB and ACK enqueue the response
msgResponseSubOnly(cmd, f) ==
    cmd = "SUB" /\ f.state = "resolved" /\ f.value.cmd = "MSG"
msgResponse(cmd, f) ==
    cmd \in {"SUB", "ACK"} /\ f.state = "resolved" /\ f.value.cmd = "MSG"

\* the continuation of the wrapper that awaits call i's future
RunCont ==
    /\ jobs # << >>
    /\ Head(jobs).type = "cont"
    /\ LET i == Head(jobs).call
           f == futures[i]
       IN  IF msgResponse(calls[i].cmd, f)
           THEN LET m == ServerMessage(calls[i].queueId, f.value)
                IN  /\ msgQ' = QEnqueue(msgQ, i, m)
                    /\ enqueued' = enqueued \o QEntered(msgQ, m)
                    /\ results' = [results EXCEPT ![i] =
                           IF msgQ.closed THEN "enqueue failed"
                           ELSE IF QRoom(msgQ) THEN "ok" ELSE "enqueue"]
           ELSE /\ results' = [results EXCEPT ![i] = WrapperResult(calls[i].cmd, f)]
                /\ UNCHANGED <<msgQ, enqueued>>
    /\ jobs' = Tail(jobs)
    /\ UNCHANGED <<rcvKey, lastFrame, hs, codec, wsLoop>>
    /\ UNCHANGED <<clientCorrId, sentCommands, connected, calls, futures, writes, sndKey,
                   channel, conn, tq, recvd, loop, registered>>

\* ------------------------------------------------------------ the application
\* msgQ.dequeue() by the consumer: the head leaves the buffer and the producer
\* that has waited longest, if any, puts its item and resumes
dequeue ==
    /\ jobs = << >>
    /\ msgQ.buf # << >>
    /\ IF msgQ.producers = << >>
       THEN /\ msgQ' = [msgQ EXCEPT !.buf = Tail(@)]
            /\ UNCHANGED <<enqueued, loop, results, jobs>>
       ELSE LET p == Head(msgQ.producers)
            IN  /\ msgQ' = [msgQ EXCEPT !.buf = Append(Tail(@), p.item),
                                        !.producers = Tail(@)]
                /\ enqueued' = Append(enqueued, p.item)
                /\ IF p.who = 0
                   THEN /\ loop' = LoopPc(tq)
                        /\ jobs' = LoopNext(tq)
                        /\ UNCHANGED results
                   ELSE /\ results' = [results EXCEPT ![p.who] = "ok"]
                        /\ UNCHANGED <<loop, jobs>>
    /\ UNCHANGED <<rcvKey, lastFrame, hs, codec, wsLoop>>
    /\ UNCHANGED <<clientCorrId, sentCommands, connected, calls, futures, writes, sndKey,
                   channel, conn, tq, recvd, registered>>

\* msgQ.close() by the application that owns the queue
closeMsgQ ==
    /\ jobs = << >>
    /\ ~msgQ.closed
    /\ msgQ' = [msgQ EXCEPT !.closed = TRUE]
    /\ UNCHANGED <<rcvKey, lastFrame, hs, codec, wsLoop>>
    /\ UNCHANGED <<clientCorrId, sentCommands, connected, calls, futures, writes, sndKey,
                   channel, conn, tq, recvd, loop, results, enqueued, registered, jobs>>

\* ---------------------------------------------------------- specifications
\* the client with its whole environment: any calls, any transmissions
Next ==
    \/ /\ Len(calls) < MaxCalls
       /\ \E c \in CallInputs : sendSMPCommand(c)
    \/ \E i \in DOMAIN writes : SignDone(i)
    \/ \E i \in DOMAIN writes : EncryptDone(i)
    \/ /\ recvd < MaxRecv
       /\ \E t \in Transmissions(recvd + 1) : Deliver(t)
    \/ disconnect
    \/ OnClose
    \/ RunLoop
    \/ RunCont
    \/ dequeue
    \/ closeMsgQ

Spec == Init /\ [][Next]_vars

\* the client in a session of subscriptions: the application subscribes and
\* consumes, the broker sends MSG as the response to SUB and as pushes
Pushes(n) == {t \in Transmissions(n) : "command" \in DOMAIN t /\ t.command.cmd = "MSG"}

NextMsg ==
    \/ /\ Len(calls) < MaxSubs
       /\ \E c \in {x \in CallInputs : x.cmd = "SUB"} : sendSMPCommand(c)
    \/ \E i \in DOMAIN writes : SignDone(i)
    \/ \E i \in DOMAIN writes : EncryptDone(i)
    \/ /\ recvd < MaxPush
       /\ \E t \in Pushes(recvd + 1) : Deliver(t)
    \/ RunLoop
    \/ RunCont
    \/ dequeue

SpecMsg == Init /\ [][NextMsg]_vars

\* the transport between the socket and the client: writes of any length
\* around the limit, and inbound frames of any kind and size
WriteInputs ==
    CallInputs
    \cup {[cmd |-> "SEND", key |-> FALSE, queueId |-> "q1", len |-> hs.blockSize - authTagSize - 1]}

\* what the socket can hand over: blocks of blockSize bytes, and a text frame
\* and frames one byte short or long whose content would parse as a MSG
Frames(n) ==
    {blockOf(t) : t \in Pushes(n) \cup {badBlock}}
    \cup {[kind |-> k, len |-> l, auth |-> TRUE,
           t |-> [corrId |-> empty, queueId |-> "q1", command |-> [cmd |-> "MSG", seq |-> n]]] :
            k \in {"text", "binary"}, l \in {hs.blockSize - 1, hs.blockSize + 1}}
    \cup {[kind |-> "text", len |-> hs.blockSize, auth |-> TRUE,
           t |-> [corrId |-> empty, queueId |-> "q1", command |-> [cmd |-> "MSG", seq |-> n]]]}

NextTransport ==
    \/ /\ Len(calls) < MaxCalls
       /\ \E c \in WriteInputs : sendSMPCommand(c)
    \/ \E i \in DOMAIN writes : SignDone(i)
    \/ \E i \in DOMAIN writes : EncryptDone(i)
    \/ /\ recvd < MaxRecv
       /\ \E f \in Frames(recvd + 1) : processWSQueue(f)
    \/ RunLoop
    \/ RunCont

SpecTransport == Init /\ [][NextTransport]_vars

\* unsigned calls made in one synchronous run, enough of them for the encoded
\* counter to pass its width
NextWrap ==
    /\ Len(calls) < MaxWrap
    /\ \E c \in {x \in CallInputs : ~x.key} : sendSMPCommand(c)

SpecWrap == Init /\ [][NextWrap]_vars

\* clientHandshake against any broker
NextHandshake ==
    \/ \E f \in HeaderFrames : ReadHeader(f)
    \/ \E f \in KeyFrames : ReadKey(f)
    \/ ValidateKeyHash
    \/ DecodePublicKey
    \/ \E s \in RandomIVs, r \in RandomIVs : getClientHandshake_3(s, r)
    \/ sendEncryptedKeys_4
    \/ \E f \in WelcomeFrames : getWelcome_6(f)
    \/ CheckVersion

SpecHandshake == InitHandshake /\ [][NextHandshake]_vars

\* Byte arrays for keys and ids: non-empty, of every length modulo 3, with
\* the bytes 0 and 255, a space and '#'.
Binaries ==
    {<<0>>, <<255>>, <<32, 35>>, <<104, 101, 108>>, <<250, 0, 32, 61>>}

\* Message bodies: empty, a space, '#', spaces around '#', "hello", and one
\* of twelve bytes, whose length takes two digits.
Bodies ==
    {empty, <<32>>, <<35>>, <<32, 35, 32>>, <<104, 101, 108, 108, 111>>,
     <<32, 49, 50, 32, 35, 0, 255, 10, 13, 32, 32, 35>>}

\* Every command the constructors give over these inputs: the 14 variants
Commands ==
    {cNoArg(t) : t \in {"SUB", "ACK", "OFF", "DEL", "PING", "END", "OK", "PONG"}}
    \cup {cNEW(k) : k \in Binaries} \cup {cKEY(k) : k \in Binaries}
    \cup {cSEND(m) : m \in Bodies}
    \cup {cIDS(r, i) : r \in Binaries, i \in Binaries}
    \cup {cMSG(i, d.ms, m) : i \in Binaries, d \in Dates, m \in Bodies}
    \cup {cERR(e, "") : e \in {"BLOCK", "AUTH", "NO_MSG", "INTERNAL"}}
    \cup {cERR("CMD", e) : e \in {"PROHIBITED", "KEY_SIZE", "SYNTAX", "NO_AUTH",
                                  "HAS_AUTH", "NO_QUEUE"}}

\* the round-trip test: serializeSMPCommand(c), then parseSMPCommand of it
Serialize ==
    /\ codec.pc = "command"
    /\ codec' = [codec EXCEPT !.pc = "serialized", !.bytes = serializeSMPCommand(codec.cmd)]
    /\ UNCHANGED <<clientCorrId, sentCommands, connected, calls, futures, writes, channel,
                   conn, tq, recvd, loop, results, msgQ, enqueued, registered, jobs,
                   lastFrame, sndKey, rcvKey, hs, wsLoop>>

Parse ==
    /\ codec.pc = "serialized"
    /\ codec' = [codec EXCEPT !.pc = "parsed", !.parsed = parseSMPCommand(codec.bytes)]
    /\ UNCHANGED <<clientCorrId, sentCommands, connected, calls, futures, writes, channel,
                   conn, tq, recvd, loop, results, msgQ, enqueued, registered, jobs,
                   lastFrame, sndKey, rcvKey, hs, wsLoop>>

InitCodec ==
    /\ clientCorrId = 0
    /\ sentCommands = << >>
    /\ connected = TRUE
    /\ calls = << >>
    /\ futures = << >>
    /\ writes = << >>
    /\ sndKey = [baseIV |-> SndIV, counter |-> 0]
    /\ rcvKey = [baseIV |-> RcvIV, counter |-> 1]
    /\ lastFrame = noFrame
    /\ hs = HsDone
    /\ codec \in {[pc |-> "command", cmd |-> c, bytes |-> empty, parsed |-> undefined] :
                    c \in Commands}
    /\ wsLoop = "run"
    /\ channel = << >>
    /\ conn = "open"
    /\ tq = << >>
    /\ recvd = 0
    /\ loop = "await"
    /\ results = << >>
    /\ msgQ = [buf |-> << >>, producers |-> << >>, closed |-> FALSE]
    /\ enqueued = << >>
    /\ registered = {}
    /\ jobs = << >>

NextCodec ==
    \/ Serialize
    \/ Parse

SpecCodec == InitCodec /\ [][NextCodec]_vars

\* The parts of a decrypted block. Signatures: the empty one and two base-64
\* texts; corrIds "", "1", "12"; queueIds empty and not; the commands, and
\* texts that are no command.
PaddingLen == 2
Signatures == {empty, <<65, 81, 61, 61>>, <<65, 65, 65, 65>>}
CorrIds == {empty, <<49>>, <<49, 50>>}
TransmissionQueueIds == {empty, <<1, 2, 3>>, <<255>>}
CommandTexts ==
    {[ok |-> TRUE, command |-> c, bytes |-> serializeSMPCommand(c)] :
        c \in {cNoArg(t) : t \in {"SUB", "PING", "END", "OK", "PONG"}}
              \cup {cNEW(<<104, 101, 108>>), cSEND(<<32, 35>>), cIDS(<<1>>, <<2, 3>>),
                    cMSG(<<7>>, 1, <<104, 32, 35>>), cERR("AUTH", ""),
                    cERR("CMD", "NO_QUEUE")}}
    \cup {[ok |-> FALSE, command |-> undefined, bytes |-> b] :
            b \in {empty, <<88, 89, 90>>, cmdTagBytes.MSG, cmdTagBytes.ERR,
                   unwords(cmdTagBytes.ERR, <<70, 79, 79>>),
                   unwords(cmdTagBytes.IDS, <<65, 81, 61, 61>>)}}
Shapes == {"framed", "no space", "bad queueId", "empty"}

\* the block made of the parts: a framed block is
\* signature SP corrId SP queueId SP command SP and padding
BlockBytes(shape, sig, corrId, queueId, text) ==
    IF shape = "framed"
      THEN unwordsN(<<sig, corrId, encodeBase64(queueId), text, empty>>)
           \o [i \in 1..PaddingLen |-> 35]
    ELSE IF shape = "no space" THEN unwords(sig, corrId)
    ELSE IF shape = "bad queueId"
      THEN unwordsN(<<sig, corrId, <<81, 85, 74>>, text, empty>>)
    ELSE empty

\* processWSQueue line 147 on a decrypted block, and on the same block
\* carrying another signature
ParseBlock ==
    /\ codec.pc = "block"
    /\ codec' = [codec EXCEPT
           !.pc = "parsed",
           !.result = parseSMPTransmission(
               BlockBytes(codec.shape, codec.sig, codec.corrId, codec.queueId,
                          codec.text.bytes))]
    /\ UNCHANGED <<clientCorrId, sentCommands, connected, calls, futures, writes, channel,
                   conn, tq, recvd, loop, results, msgQ, enqueued, registered, jobs,
                   lastFrame, sndKey, rcvKey, hs, wsLoop>>

ParseResigned ==
    /\ codec.pc = "parsed"
    /\ codec' = [codec EXCEPT
           !.pc = "both parsed",
           !.resigned = parseSMPTransmission(
               BlockBytes(codec.shape, codec.sig2, codec.corrId, codec.queueId,
                          codec.text.bytes))]
    /\ UNCHANGED <<clientCorrId, sentCommands, connected, calls, futures, writes, channel,
                   conn, tq, recvd, loop, results, msgQ, enqueued, registered, jobs,
                   lastFrame, sndKey, rcvKey, hs, wsLoop>>

InitParse ==
    /\ clientCorrId = 0
    /\ sentCommands = << >>
    /\ connected = TRUE
    /\ calls = << >>
    /\ futures = << >>
    /\ writes = << >>
    /\ sndKey = [baseIV |-> SndIV, counter |-> 0]
    /\ rcvKey = [baseIV |-> RcvIV, counter |-> 1]
    /\ lastFrame = noFrame
    /\ hs = HsDone
    /\ codec \in {[pc |-> "block", shape |-> sh, sig |-> sg, sig2 |-> sg2, corrId |-> c,
                   queueId |-> q, text |-> t, result |-> badBlockBytes,
                   resigned |-> badBlockBytes] :
                    sh \in Shapes, sg \in Signatures, sg2 \in Signatures, c \in CorrIds,
                    q \in TransmissionQueueIds, t \in CommandTexts}
    /\ wsLoop = "run"
    /\ channel = << >>
    /\ conn = "open"
    /\ tq = << >>
    /\ recvd = 0
    /\ loop = "await"
    /\ results = << >>
    /\ msgQ = [buf |-> << >>, producers |-> << >>, closed |-> FALSE]
    /\ enqueued = << >>
    /\ registered = {}
    /\ jobs = << >>

NextParse ==
    \/ ParseBlock
    \/ ParseResigned

SpecParse == InitParse /\ [][NextParse]_vars

\* calls whose write fails in encryptAES, unsigned and signed, among calls
\* whose write succeeds or times out
WriteFailInputs ==
    WriteInputs
    \cup {[cmd |-> "SUB", key |-> TRUE, queueId |-> "q1", len |-> hs.blockSize - authTagSize]}

NextWriteFail ==
    \/ /\ Len(calls) < MaxCalls
       /\ \E c \in WriteFailInputs : sendSMPCommand(c)
    \/ \E i \in DOMAIN writes : SignDone(i)
    \/ \E i \in DOMAIN writes : EncryptDone(i)
    \/ \E i \in DOMAIN writes : WriteTimeout(i)
    \/ /\ recvd < MaxRecv
       /\ \E t \in Transmissions(recvd + 1) : Deliver(t)
    \/ RunLoop
    \/ RunCont

SpecWriteFail == Init /\ [][NextWriteFail]_vars

\* ------------------------------------------------------------ AES-GCM padding
MaxDataLen == 3
MaxPaddedSize == 4

PADDING == 35

\* crypto.subtle.encrypt({name: "AES-GCM", iv}, key, data): the platform's
\* authenticated cipher, as a keyed byte-wise transformation of the data
\* followed by a tag of authTagSize bytes that depends on the key, the IV and
\* every byte of the ciphertext
keystream(key, iv, i) == (((key * 7) + (iv * 3)) + (i * 5)) % 256
RECURSIVE sumBytes(_)
sumBytes(b) == IF b = << >> THEN 0 ELSE (Head(b) + sumBytes(Tail(b))) % 256
gcmTag(key, iv, enc) ==
    [j \in 1..authTagSize |-> ((((key * 11) + (iv * 13)) + sumBytes(enc)) + j) % 256]
subtleEncrypt(key, iv, data) ==
    LET enc == [i \in 1..Len(data) |-> (data[i] + keystream(key, iv, i)) % 256]
    IN  enc \o gcmTag(key, iv, enc)

\* crypto.subtle.decrypt: rejects unless the last authTagSize bytes are the tag
\* of the bytes before them under this key and IV
subtleDecrypt(key, iv, e) ==
    LET n == Len(e) - authTagSize
        enc == SubSeq(e, 1, n)
    IN  IF n < 0 \/ SubSeq(e, n + 1, n + authTagSize) # gcmTag(key, iv, enc)
          THEN [ok |-> FALSE, val |-> empty]
          ELSE [ok |-> TRUE,
                val |-> [i \in 1..n |-> ((enc[i] + 256) - keystream(key, iv, i)) % 256]]

\* paddedData: data at offset 0, then filled with the padding byte
paddedData(paddedSize, data, fill) ==
    [i \in 1..paddedSize |-> IF i <= Len(data) THEN data[i] ELSE fill]

encryptAESZeroFill(key, iv, paddedSize, data) ==
    IF Len(data) >= paddedSize
      THEN [ok |-> FALSE, encryptedAndTag |-> empty, encrypted |-> empty, authTag |-> empty]
      ELSE LET enc == subtleEncrypt(key, iv, paddedData(paddedSize, data, 0))
           IN  [ok |-> TRUE, encryptedAndTag |-> enc,
                encrypted |-> SubSeq(enc, 1, paddedSize),
                authTag |-> SubSeq(enc, paddedSize + 1, Len(enc))]

\* encryptAES: ok = FALSE is CryptoError("large message")
encryptAES(key, iv, paddedSize, data) ==
    IF Len(data) >= paddedSize
      THEN [ok |-> FALSE, encryptedAndTag |-> empty, encrypted |-> empty, authTag |-> empty]
      ELSE LET enc == subtleEncrypt(key, iv, paddedData(paddedSize, data, PADDING))
           IN  [ok |-> TRUE, encryptedAndTag |-> enc,
                encrypted |-> SubSeq(enc, 1, paddedSize),
                authTag |-> SubSeq(enc, paddedSize + 1, Len(enc))]

decryptAES(key, iv, e) == subtleDecrypt(key, iv, e)

\* decryptAESData: concat(e.encrypted, e.authTag)
decryptAESData(key, iv, e) == decryptAES(key, iv, e.encrypted \o e.authTag)

AESKeys == {1, 2}
AESIVs == {0, 9}
AESBytes == {0, 35, 104}
RECURSIVE SeqsUpTo(_, _)
SeqsUpTo(S, n) ==
    IF n = 0 THEN {<< >>}
    ELSE LET shorter == SeqsUpTo(S, n - 1)
         IN  shorter \cup {Append(q, b) : q \in shorter, b \in S}
AESData == SeqsUpTo(AESBytes, MaxDataLen)

noAES == [ok |-> FALSE, encryptedAndTag |-> empty, encrypted |-> empty, authTag |-> empty]

EncryptAES ==
    /\ codec.pc = "plain"
    /\ LET res == encryptAES(codec.key, codec.iv, codec.paddedSize, codec.data)
       IN  codec' = [codec EXCEPT !.pc = IF res.ok THEN "encrypted" ELSE "thrown",
                                  !.res = res]
    /\ UNCHANGED <<clientCorrId, sentCommands, connected, calls, futures, writes, channel,
                   conn, tq, recvd, loop, results, msgQ, enqueued, registered, jobs,
                   lastFrame, sndKey, rcvKey, hs, wsLoop>>

\* decryptAES(key, iv, res.encryptedAndTag) with the key and IV of the encryption
DecryptAES ==
    /\ codec.pc = "encrypted"
    /\ codec' = [codec EXCEPT !.pc = "decrypted",
                              !.out = decryptAES(codec.key, codec.iv, codec.res.encryptedAndTag)]
    /\ UNCHANGED <<clientCorrId, sentCommands, connected, calls, futures, writes, channel,
                   conn, tq, recvd, loop, results, msgQ, enqueued, registered, jobs,
                   lastFrame, sndKey, rcvKey, hs, wsLoop>>

\* decryptAESData(key, iv, res) from the two views of the result
DecryptAESData ==
    /\ codec.pc = "encrypted"
    /\ codec' = [codec EXCEPT !.pc = "decryptedData",
                              !.out = decryptAESData(codec.key, codec.iv, codec.res)]
    /\ UNCHANGED <<clientCorrId, sentCommands, connected, calls, futures, writes, channel,
                   conn, tq, recvd, loop, results, msgQ, enqueued, registered, jobs,
                   lastFrame, sndKey, rcvKey, hs, wsLoop>>

\* decryptAES with another key or IV than the encryption's
DecryptOther ==
    /\ codec.pc = "encrypted"
    /\ \E k \in AESKeys, v \in AESIVs :
         /\ <<k, v>> # <<codec.key, codec.iv>>
         /\ codec' = [codec EXCEPT !.pc = "decryptedOther",
                                   !.out = decryptAES(k, v, codec.res.encryptedAndTag)]
    /\ UNCHANGED <<clientCorrId, sentCommands, connected, calls, futures, writes, channel,
                   conn, tq, recvd, loop, results, msgQ, enqueued, registered, jobs,
                   lastFrame, sndKey, rcvKey, hs, wsLoop>>

InitAES ==
    /\ clientCorrId = 0
    /\ sentCommands = << >>
    /\ connected = TRUE
    /\ calls = << >>
    /\ futures = << >>
    /\ writes = << >>
    /\ sndKey = [baseIV |-> SndIV, counter |-> 0]
    /\ rcvKey = [baseIV |-> RcvIV, counter |-> 1]
    /\ lastFrame = noFrame
    /\ hs = HsDone
    /\ codec \in {[pc |-> "plain", key |-> k, iv |-> v, paddedSize |-> n, data |-> x,
                     res |-> noAES, out |-> [ok |-> FALSE, val |-> empty]] :
                    k \in AESKeys, v \in AESIVs, n \in 1..MaxPaddedSize, x \in AESData}
    /\ wsLoop = "run"
    /\ channel = << >>
    /\ conn = "open"
    /\ tq = << >>
    /\ recvd = 0
    /\ loop = "await"
    /\ results = << >>
    /\ msgQ = [buf |-> << >>, producers |-> << >>, closed |-> FALSE]
    /\ enqueued = << >>
    /\ registered = {}
    /\ jobs = << >>

NextAES ==
    \/ EncryptAES
    \/ DecryptAES
    \/ DecryptAESData
    \/ DecryptOther

SpecAES == InitAES /\ [][NextAES]_vars

\* ------------------------------------------------------------------- base64
MaxBytesLen == 4
MaxTextLen == 8

\* byte sequences to encode, and texts to decode: over an alphabet character,
\* the padding character and a character outside the alphabet
B64Bytes == {0, 104, 255}
B64Chars == {65, char_equal, 35}
B64Inputs == SeqsUpTo(B64Bytes, MaxBytesLen)
B64Texts == SeqsUpTo(B64Chars, MaxTextLen)

noB64 == [ok |-> FALSE, val |-> empty]

EncodeBase64 ==
    /\ codec.pc = "bytes"
    /\ codec' = [codec EXCEPT !.pc = "encoded", !.enc = encodeBase64(codec.x)]
    /\ UNCHANGED <<clientCorrId, sentCommands, connected, calls, futures, writes, channel,
                   conn, tq, recvd, loop, results, msgQ, enqueued, registered, jobs,
                   lastFrame, sndKey, rcvKey, hs, wsLoop>>

\* decodeBase64(encodeBase64(x))
DecodeEncoded ==
    /\ codec.pc = "encoded"
    /\ codec' = [codec EXCEPT !.pc = "roundtrip", !.dec = decodeBase64(codec.enc)]
    /\ UNCHANGED <<clientCorrId, sentCommands, connected, calls, futures, writes, channel,
                   conn, tq, recvd, loop, results, msgQ, enqueued, registered, jobs,
                   lastFrame, sndKey, rcvKey, hs, wsLoop>>

\* decodeBase64 of a text that is not the output of encodeBase64
DecodeText ==
    /\ codec.pc = "text"
    /\ codec' = [codec EXCEPT !.pc = "decoded", !.dec = decodeBase64(codec.x)]
    /\ UNCHANGED <<clientCorrId, sentCommands, connected, calls, futures, writes, channel,
                   conn, tq, recvd, loop, results, msgQ, enqueued, registered, jobs,
                   lastFrame, sndKey, rcvKey, hs, wsLoop>>

InitBase64 ==
    /\ clientCorrId = 0
    /\ sentCommands = << >>
    /\ connected = TRUE
    /\ calls = << >>
    /\ futures = << >>
    /\ writes = << >>
    /\ sndKey = [baseIV |-> SndIV, counter |-> 0]
    /\ rcvKey = [baseIV |-> RcvIV, counter |-> 1]
    /\ lastFrame = noFrame
    /\ hs = HsDone
    /\ codec \in {[pc |-> "bytes", x |-> x, enc |-> empty, dec |-> noB64] : x \in B64Inputs}
                 \cup {[pc |-> "text", x |-> t, enc |-> empty, dec |-> noB64] : t \in B64Texts}
    /\ wsLoop = "run"
    /\ channel = << >>
    /\ conn = "open"
    /\ tq = << >>
    /\ recvd = 0
    /\ loop = "await"
    /\ results = << >>
    /\ msgQ = [buf |-> << >>, producers |-> << >>, closed |-> FALSE]
    /\ enqueued = << >>
    /\ registered = {}
    /\ jobs = << >>

NextBase64 ==
    \/ EncodeBase64
    \/ DecodeEncoded
    \/ DecodeText

SpecBase64 == InitBase64 /\ [][NextBase64]_vars

\* ------------------------------------------------- the bytes of a written block
\* C.sign(key, data): the platform's RSA-PSS signature, as bytes that are
\* determined by the key and by every byte of the data signed
keyByte(key) == IF key = "k1" THEN 7 ELSE 9
sign(key, data) == <<keyByte(key)>> \o [i \in 1..Len(data) |-> data[(Len(data) + 1) - i]]

serializeTransmission(t) ==
    unwordsN(<<t.corrId, encodeBase64(t.queueId), serializeSMPCommand(t.command)>>)

\* SMPTransport.write: the data handed to tPutEncrypted; key "" is no key
writeData(t) ==
    LET trn == serializeTransmission(t)
        sig == IF t.key # "" THEN sign(t.key, trn) ELSE empty
    IN  unwordsN(<<(IF t.key # "" THEN encodeBase64(sig) ELSE empty), trn, empty>>)

\* the transmissions a client writes: its own commands, signed or not
ClientCommands == {c \in Commands : c.party \in {"R", "S"}}
ClientTransmissions ==
    {[corrId |-> c, queueId |-> q, command |-> cmd, key |-> k] :
        c \in CorrIds, q \in TransmissionQueueIds, cmd \in ClientCommands,
        k \in {"", "k1", "k2"}}

WriteData ==
    /\ codec.pc = "transmission"
    /\ codec' = [codec EXCEPT !.pc = "data", !.data = writeData(codec.t)]
    /\ UNCHANGED <<clientCorrId, sentCommands, connected, calls, futures, writes, channel,
                   conn, tq, recvd, loop, results, msgQ, enqueued, registered, jobs,
                   lastFrame, sndKey, rcvKey, hs, wsLoop>>

\* tPutEncrypted: encryptAES pads the data to blockSize - authTagSize
WritePlaintext ==
    /\ codec.pc = "data"
    /\ Len(codec.data) < hs.blockSize - authTagSize
    /\ codec' = [codec EXCEPT !.pc = "plaintext",
                              !.plain = paddedData(hs.blockSize - authTagSize, codec.data,
                                                   PADDING)]
    /\ UNCHANGED <<clientCorrId, sentCommands, connected, calls, futures, writes, channel,
                   conn, tq, recvd, loop, results, msgQ, enqueued, registered, jobs,
                   lastFrame, sndKey, rcvKey, hs, wsLoop>>

InitWriteBytes ==
    /\ clientCorrId = 0
    /\ sentCommands = << >>
    /\ connected = TRUE
    /\ calls = << >>
    /\ futures = << >>
    /\ writes = << >>
    /\ sndKey = [baseIV |-> SndIV, counter |-> 0]
    /\ rcvKey = [baseIV |-> RcvIV, counter |-> 1]
    /\ lastFrame = noFrame
    /\ hs = HsDone
    /\ codec \in {[pc |-> "transmission", t |-> t, data |-> empty, plain |-> empty] :
                    t \in ClientTransmissions}
    /\ wsLoop = "run"
    /\ channel = << >>
    /\ conn = "open"
    /\ tq = << >>
    /\ recvd = 0
    /\ loop = "await"
    /\ results = << >>
    /\ msgQ = [buf |-> << >>, producers |-> << >>, closed |-> FALSE]
    /\ enqueued = << >>
    /\ registered = {}
    /\ jobs = << >>

NextWriteBytes ==
    \/ WriteData
    \/ WritePlaintext

SpecWriteBytes == InitWriteBytes /\ [][NextWriteBytes]_vars

\* ------------------------------------------------------- the combinators alone
MaxInputLen == 4

\* Parser.takeWhile1(isDigit)
pTakeWhile1(s, pos) ==
    LET e == takeWhileDigit(s, pos)
    IN  IF e > pos THEN [ok |-> TRUE, val |-> SubSeq(s, pos + 1, e), pos |-> e] ELSE pFail(pos)

\* the inputs: every text up to MaxInputLen over a letter, a digit, the space
\* and '=', and texts that hold a command tag or a date
ParserInputs ==
    SeqsUpTo({65, 49, space, char_equal}, MaxInputLen)
    \cup {<<83, 85, 66, 32>>, <<83, 85>>} \cup {d.iso \o <<space>> : d \in Dates}
Combinators == {"take", "takeWhile1", "space", "str", "someStr", "base64", "decimal", "date"}

\* p.take(2)
RunTake ==
    /\ codec.pc = "input"
    /\ codec.comb = "take"
    /\ LET r == pTake(codec.s, codec.pos, 2)
       IN  codec' = [codec EXCEPT !.pc = "done", !.ok = r.ok, !.after = r.pos]
    /\ UNCHANGED <<clientCorrId, sentCommands, connected, calls, futures, writes, channel,
                   conn, tq, recvd, loop, results, msgQ, enqueued, registered, jobs,
                   lastFrame, sndKey, rcvKey, hs, wsLoop>>

\* p.takeWhile1(isDigit)
RunTakeWhile1 ==
    /\ codec.pc = "input"
    /\ codec.comb = "takeWhile1"
    /\ LET r == pTakeWhile1(codec.s, codec.pos)
       IN  codec' = [codec EXCEPT !.pc = "done", !.ok = r.ok, !.after = r.pos]
    /\ UNCHANGED <<clientCorrId, sentCommands, connected, calls, futures, writes, channel,
                   conn, tq, recvd, loop, results, msgQ, enqueued, registered, jobs,
                   lastFrame, sndKey, rcvKey, hs, wsLoop>>

\* p.space()
RunSpace ==
    /\ codec.pc = "input"
    /\ codec.comb = "space"
    /\ LET r == pSpace(codec.s, codec.pos)
       IN  codec' = [codec EXCEPT !.pc = "done", !.ok = r.ok, !.after = r.pos]
    /\ UNCHANGED <<clientCorrId, sentCommands, connected, calls, futures, writes, channel,
                   conn, tq, recvd, loop, results, msgQ, enqueued, registered, jobs,
                   lastFrame, sndKey, rcvKey, hs, wsLoop>>

\* p.str("A1")
RunStr ==
    /\ codec.pc = "input"
    /\ codec.comb = "str"
    /\ LET r == pStr(codec.s, codec.pos, <<65, 49>>)
       IN  codec' = [codec EXCEPT !.pc = "done", !.ok = r.ok, !.after = r.pos]
    /\ UNCHANGED <<clientCorrId, sentCommands, connected, calls, futures, writes, channel,
                   conn, tq, recvd, loop, results, msgQ, enqueued, registered, jobs,
                   lastFrame, sndKey, rcvKey, hs, wsLoop>>

\* p.someStr(cmdTagBytes)
RunSomeStr ==
    /\ codec.pc = "input"
    /\ codec.comb = "someStr"
    /\ LET r == someStr(codec.s, codec.pos, cmdTags, cmdTagBytes)
       IN  codec' = [codec EXCEPT !.pc = "done", !.ok = r.ok, !.after = r.pos]
    /\ UNCHANGED <<clientCorrId, sentCommands, connected, calls, futures, writes, channel,
                   conn, tq, recvd, loop, results, msgQ, enqueued, registered, jobs,
                   lastFrame, sndKey, rcvKey, hs, wsLoop>>

\* p.base64()
RunBase64 ==
    /\ codec.pc = "input"
    /\ codec.comb = "base64"
    /\ LET r == pBase64(codec.s, codec.pos)
       IN  codec' = [codec EXCEPT !.pc = "done", !.ok = r.ok, !.after = r.pos]
    /\ UNCHANGED <<clientCorrId, sentCommands, connected, calls, futures, writes, channel,
                   conn, tq, recvd, loop, results, msgQ, enqueued, registered, jobs,
                   lastFrame, sndKey, rcvKey, hs, wsLoop>>

\* p.decimal()
RunDecimal ==
    /\ codec.pc = "input"
    /\ codec.comb = "decimal"
    /\ LET r == pDecimal(codec.s, codec.pos)
       IN  codec' = [codec EXCEPT !.pc = "done", !.ok = r.ok, !.after = r.pos]
    /\ UNCHANGED <<clientCorrId, sentCommands, connected, calls, futures, writes, channel,
                   conn, tq, recvd, loop, results, msgQ, enqueued, registered, jobs,
                   lastFrame, sndKey, rcvKey, hs, wsLoop>>

\* p.date()
RunDate ==
    /\ codec.pc = "input"
    /\ codec.comb = "date"
    /\ LET r == pDate(codec.s, codec.pos)
       IN  codec' = [codec EXCEPT !.pc = "done", !.ok = r.ok, !.after = r.pos]
    /\ UNCHANGED <<clientCorrId, sentCommands, connected, calls, futures, writes, channel,
                   conn, tq, recvd, loop, results, msgQ, enqueued, registered, jobs,
                   lastFrame, sndKey, rcvKey, hs, wsLoop>>

InitCombinators ==
    /\ clientCorrId = 0
    /\ sentCommands = << >>
    /\ connected = TRUE
    /\ calls = << >>
    /\ futures = << >>
    /\ writes = << >>
    /\ sndKey = [baseIV |-> SndIV, counter |-> 0]
    /\ rcvKey = [baseIV |-> RcvIV, counter |-> 1]
    /\ lastFrame = noFrame
    /\ hs = HsDone
    /\ codec \in {[pc |-> "input", s |-> x, pos |-> p, comb |-> c, ok |-> FALSE, after |-> 0] :
                    x \in ParserInputs, p \in 0..MaxInputLen, c \in Combinators}
    /\ wsLoop = "run"
    /\ channel = << >>
    /\ conn = "open"
    /\ tq = << >>
    /\ recvd = 0
    /\ loop = "await"
    /\ results = << >>
    /\ msgQ = [buf |-> << >>, producers |-> << >>, closed |-> FALSE]
    /\ enqueued = << >>
    /\ registered = {}
    /\ jobs = << >>

NextCombinators ==
    \/ RunTake
    \/ RunTakeWhile1
    \/ RunSpace
    \/ RunStr
    \/ RunSomeStr
    \/ RunBase64
    \/ RunDecimal
    \/ RunDate

SpecCombinators == InitCombinators /\ [][NextCombinators]_vars

\* ------------------------------------------------------------- Parser.try
MaxNest == 2

\* what a parser function returns, as JavaScript sees it: undefined, a falsy
\* value that is not undefined (the number 0), or a truthy value
jsResult(fn, s, pos) ==
    IF fn = "decimal"
      THEN LET r == pDecimal(s, pos)
           IN  [res |-> IF ~r.ok THEN "undefined" ELSE IF truthy(r.val) THEN "truthy" ELSE "falsy",
                pos |-> r.pos]
    ELSE LET r == IF fn = "space" THEN pSpace(s, pos) ELSE pTake(s, pos, 1)
         IN  [res |-> IF r.ok THEN "truthy" ELSE "undefined", pos |-> r.pos]

\* try, after parser(this): `if (res === undefined) this.pos = prevPos || 0`
\* and `return res || undefined`
tryPos(res, pos, prevPos) == IF res = "undefined" THEN prevPos ELSE pos
tryResult(res) == IF res = "truthy" THEN "truthy" ELSE "undefined"

\* this.positions.push(this.pos); a nested call is p.try(p => (p.space(),
\* p.try(...))) when lead is set and p.try(p => p.try(...)) otherwise
TryEnter ==
    /\ codec.pc = "enter"
    /\ LET inner == Len(codec.positions) + 1 >= codec.nest
       IN  codec' = [codec EXCEPT
                       !.positions = Append(@, codec.pos),
                       !.pos = IF ~inner /\ codec.lead THEN pSpace(codec.s, codec.pos).pos ELSE @,
                       !.pc = IF inner THEN "fn" ELSE "enter"]
    /\ UNCHANGED <<clientCorrId, sentCommands, connected, calls, futures, writes, channel,
                   conn, tq, recvd, loop, results, msgQ, enqueued, registered, jobs,
                   lastFrame, sndKey, rcvKey, hs, wsLoop>>

\* parser(this) of the innermost try
TryFn ==
    /\ codec.pc = "fn"
    /\ LET r == jsResult(codec.fn, codec.s, codec.pos)
       IN  codec' = [codec EXCEPT !.pc = "exit", !.res = r.res, !.pos = r.pos]
    /\ UNCHANGED <<clientCorrId, sentCommands, connected, calls, futures, writes, channel,
                   conn, tq, recvd, loop, results, msgQ, enqueued, registered, jobs,
                   lastFrame, sndKey, rcvKey, hs, wsLoop>>

\* the rest of try: pop, restore, return; the result is what the enclosing
\* try's parser returns
TryExit ==
    /\ codec.pc = "exit"
    /\ LET prevPos == codec.positions[Len(codec.positions)]
       IN  codec' = [codec EXCEPT
                       !.positions = SubSeq(@, 1, Len(@) - 1),
                       !.pos = tryPos(codec.res, codec.pos, prevPos),
                       !.res = tryResult(codec.res),
                       !.pc = IF Len(codec.positions) = 1 THEN "done" ELSE "exit"]
    /\ UNCHANGED <<clientCorrId, sentCommands, connected, calls, futures, writes, channel,
                   conn, tq, recvd, loop, results, msgQ, enqueued, registered, jobs,
                   lastFrame, sndKey, rcvKey, hs, wsLoop>>

InitTry ==
    /\ clientCorrId = 0
    /\ sentCommands = << >>
    /\ connected = TRUE
    /\ calls = << >>
    /\ futures = << >>
    /\ writes = << >>
    /\ sndKey = [baseIV |-> SndIV, counter |-> 0]
    /\ rcvKey = [baseIV |-> RcvIV, counter |-> 1]
    /\ lastFrame = noFrame
    /\ hs = HsDone
    /\ codec \in {[pc |-> "enter", s |-> x, pos |-> p, positions |-> << >>, nest |-> n,
                     lead |-> l, fn |-> f, res |-> "none"] :
                    x \in SeqsUpTo({48, 49, space}, MaxInputLen), p \in 0..MaxInputLen,
                    n \in 1..MaxNest, l \in BOOLEAN, f \in {"decimal", "space", "take"}}
    /\ wsLoop = "run"
    /\ channel = << >>
    /\ conn = "open"
    /\ tq = << >>
    /\ recvd = 0
    /\ loop = "await"
    /\ results = << >>
    /\ msgQ = [buf |-> << >>, producers |-> << >>, closed |-> FALSE]
    /\ enqueued = << >>
    /\ registered = {}
    /\ jobs = << >>

NextTry ==
    \/ TryEnter
    \/ TryFn
    \/ TryExit

SpecTry == InitTry /\ [][NextTry]_vars

\* the calls the seven wrappers make: createSMPQueue (NEW), subscribeSMPQueue
\* (SUB), secureSMPQueue (KEY), sendSMPMessage (SEND), ackSMPMessage (ACK),
\* suspendSMPQueue (OFF), deleteSMPQueue (DEL)
WrapperInputs ==
    { [cmd |-> "NEW",  key |-> TRUE,  queueId |-> "",   len |-> 400],
      [cmd |-> "SUB",  key |-> TRUE,  queueId |-> "q1", len |-> 400],
      [cmd |-> "KEY",  key |-> TRUE,  queueId |-> "q1", len |-> 400],
      [cmd |-> "SEND", key |-> FALSE, queueId |-> "q1", len |-> 100],
      [cmd |-> "ACK",  key |-> TRUE,  queueId |-> "q1", len |-> 400],
      [cmd |-> "OFF",  key |-> TRUE,  queueId |-> "q1", len |-> 400],
      [cmd |-> "DEL",  key |-> TRUE,  queueId |-> "q1", len |-> 400] }

\* what the broker can answer a call with: every broker command, ERR with
\* either of two errors, a command error; and a MSG pushed without corrId
Responses(n) ==
    {[corrId |-> c, queueId |-> "q1", command |-> [cmd |-> b, seq |-> n]] :
        c \in IssuedCorrIds \ {empty}, b \in {"IDS", "OK", "MSG", "END", "PONG"}}
    \cup {[corrId |-> c, queueId |-> "q1",
           command |-> [cmd |-> "ERR", error |-> e, seq |-> n]] :
            c \in IssuedCorrIds \ {empty}, e \in {"AUTH", "NO_MSG"}}
    \cup {[corrId |-> c, queueId |-> "q1", error |-> "CMD SYNTAX"] :
            c \in IssuedCorrIds \ {empty}}
    \cup {[corrId |-> empty, queueId |-> "q2", command |-> [cmd |-> "MSG", seq |-> n]]}

\* one wrapper call, the broker's answers, and the application reading msgQ
NextWrappers ==
    \/ /\ Len(calls) < MaxWrapperCalls
       /\ \E c \in WrapperInputs : sendSMPCommand(c)
    \/ \E i \in DOMAIN writes : SignDone(i)
    \/ \E i \in DOMAIN writes : EncryptDone(i)
    \/ /\ recvd < MaxRecv
       /\ \E t \in Responses(recvd + 1) : Deliver(t)
    \/ RunLoop
    \/ RunCont
    \/ dequeue

SpecWrappers == Init /\ [][NextWrappers]_vars

\* what the socket can hand over after the handshake: blocks that decrypt to
\* a response or a push, a block of blockSize bytes that fails AES-GCM
\* authentication, and a text frame
InboundFrames(n) ==
    {blockOf(t) : t \in {x \in Transmissions(n) :
                            "command" \in DOMAIN x /\ x.command.cmd \in {"OK", "MSG"}}}
    \cup {[kind |-> "binary", len |-> hs.blockSize, auth |-> FALSE, t |-> badBlock],
          [kind |-> "text", len |-> hs.blockSize, auth |-> TRUE, t |-> badBlock]}

\* one request, the inbound frames, and the end of the connection
NextInbound ==
    \/ /\ Len(calls) < 1
       /\ \E c \in {x \in CallInputs : x.cmd = "SUB"} : sendSMPCommand(c)
    \/ \E i \in DOMAIN writes : SignDone(i)
    \/ \E i \in DOMAIN writes : EncryptDone(i)
    \/ /\ recvd < MaxInbound
       /\ \E f \in InboundFrames(recvd + 1) : processWSQueue(f)
    \/ disconnect
    \/ OnClose
    \/ RunLoop
    \/ RunCont
    \/ dequeue

SpecInbound == Init /\ [][NextInbound]_vars

\* the same with the scheduling the event loop gives: a queued microtask
\* runs, the close event of a closing socket arrives, the application keeps
\* taking messages from msgQ, and started crypto operations complete
SpecInboundFair ==
    /\ Init
    /\ [][NextInbound]_vars
    /\ WF_vars(OnClose)
    /\ WF_vars(RunLoop)
    /\ WF_vars(RunCont)
    /\ WF_vars(dequeue)
    /\ WF_vars(\E i \in DOMAIN writes : SignDone(i))
    /\ WF_vars(\E i \in DOMAIN writes : EncryptDone(i))

\* the application making its calls in one synchronous run, before any
\* promise reaction, crypto completion or socket event
NextBurst ==
    /\ Len(calls) < MaxBurst
    /\ \E c \in CallInputs : sendSMPCommand(c)

SpecBurst == Init /\ [][NextBurst]_vars

\* one request and what the broker sends while it is pending: its response
\* and pushes, with an application that takes messages when it chooses to
MaxDelivered == 3

NextResponse ==
    \/ /\ Len(calls) < 1
       /\ \E c \in {x \in CallInputs : x.cmd = "SUB"} : sendSMPCommand(c)
    \/ \E i \in DOMAIN writes : SignDone(i)
    \/ \E i \in DOMAIN writes : EncryptDone(i)
    \/ /\ recvd < MaxDelivered
       /\ \E t \in {x \in Transmissions(recvd + 1) :
                      "command" \in DOMAIN x /\ x.command.cmd \in {"OK", "MSG"}} : Deliver(t)
    \/ RunLoop
    \/ RunCont
    \/ dequeue

\* the scheduling of the event loop: a queued microtask runs and started
\* crypto operations complete; when the application takes a message from msgQ
\* is its own choice
SpecResponseFair ==
    /\ Init
    /\ [][NextResponse]_vars
    /\ WF_vars(RunLoop)
    /\ WF_vars(RunCont)
    /\ WF_vars(\E i \in DOMAIN writes : SignDone(i))
    /\ WF_vars(\E i \in DOMAIN writes : EncryptDone(i))

\* ------------------------------------------------------------------ claims
\* the step being taken is an iteration of runClient on the transmission at
\* the head of the transport queue
LoopStep == jobs # << >> /\ Head(jobs).type = "loop" /\ tq # << >>
LoopHit == LoopStep /\ decodeAscii(Head(tq).corrId) \in DOMAIN sentCommands
LoopMiss == LoopStep /\ decodeAscii(Head(tq).corrId) \notin DOMAIN sentCommands

\* C1: a future changes only in a step of the inbound loop on a transmission
\* whose corrId is the key of that future's pending entry, it had not been
\* settled before and is settled once; such a step removes that entry and
\* leaves every other future and entry as they were.
C1_MatchByCorrId ==
    [][ /\ \A i \in DOMAIN futures :
             futures'[i] # futures[i] =>
                /\ LoopHit
                /\ sentCommands[decodeAscii(Head(tq).corrId)].call = i
                /\ calls[i].corrId = Head(tq).corrId
                /\ futures[i].settles = 0
                /\ futures'[i].settles = 1
                /\ futures'[i].state # "pending"
        /\ LoopHit =>
             LET cId == decodeAscii(Head(tq).corrId)
                 i == sentCommands[cId].call
             IN  /\ futures'[i] # futures[i]
                 /\ DOMAIN sentCommands' = DOMAIN sentCommands \ {cId}
                 /\ \A k \in DOMAIN sentCommands' : sentCommands'[k] = sentCommands[k]
      ]_vars

\* two requests were outstanding together and were answered in the reverse
\* order of their calls
C1_Witness ==
    /\ Len(futures) = 2
    /\ futures[1].state = "resolved" /\ futures[1].value.seq = 2
    /\ futures[2].state = "resolved" /\ futures[2].value.seq = 1

\* C2: send counters are taken in the order of the sendSMPCommand calls and
\* the blocks reach the channel in that order.
C2_CallOrder ==
    /\ \A i, j \in DOMAIN writes :
          (i < j /\ writes[i].counter >= 0 /\ writes[j].counter >= 0)
              => writes[i].counter < writes[j].counter
    /\ \A a, b \in DOMAIN channel : a < b => channel[a].call < channel[b].call

\* C3: the n-th block on the channel was encrypted under send counter n-1.
C3_CounterOrder == \A n \in DOMAIN channel : channel[n].counter = n - 1

\* C4: when the inbound loop ends on the closed transport, no request is left
\* in sentCommands and no future is left pending.
C4_RejectedAtClose ==
    [][ (loop # "done" /\ loop' = "done") =>
            /\ DOMAIN sentCommands' = {}
            /\ \A i \in DOMAIN futures' : futures'[i].state # "pending" ]_vars

\* C5: when the inbound loop ends on the closed transport, msgQ is closed.
C5_MsgQClosedAtEnd == [][ (loop # "done" /\ loop' = "done") => msgQ'.closed ]_vars

\* C6: on a hit the entry is removed and its waiter settled once: rejected
\* with the transmission's error, rejected with the error of an ERR command,
\* or resolved with the command; nothing goes to msgQ.
C6_Hit ==
    [][ LoopHit =>
          LET resp == Head(tq)
              cId == decodeAscii(resp.corrId)
              i == sentCommands[cId].call
          IN  /\ cId \notin DOMAIN sentCommands'
              /\ futures'[i].settles = futures[i].settles + 1
              /\ IF "error" \in DOMAIN resp
                    THEN /\ futures'[i].state = "rejected"
                         /\ futures'[i].value = [error |-> resp.error]
                    ELSE IF resp.command.cmd = "ERR"
                    THEN /\ futures'[i].state = "rejected"
                         /\ futures'[i].value = [error |-> resp.command.error]
                    ELSE /\ futures'[i].state = "resolved"
                         /\ futures'[i].value = resp.command
              /\ msgQ' = msgQ
              /\ enqueued' = enqueued
      ]_vars

\* one request was rejected with the error of an ERR response and another
\* with the error of the transmission
C6_Witness ==
    \E i, j \in DOMAIN futures :
        /\ futures[i].state = "rejected" /\ futures[i].value = [error |-> "AUTH"]
        /\ futures[j].state = "rejected" /\ futures[j].value = [error |-> "CMD SYNTAX"]

\* C7: on a miss the loop calls msgQ.enqueue with {server, queueId, command}
\* exactly when the transmission carries a MSG or END command, and leaves
\* msgQ alone otherwise; sentCommands and the futures do not change.
C7_Miss ==
    [][ LoopMiss =>
          LET resp == Head(tq)
              push == "command" \in DOMAIN resp /\ resp.command.cmd \in {"MSG", "END"}
          IN  /\ sentCommands' = sentCommands
              /\ futures' = futures
              /\ IF push
                    THEN msgQ' = QEnqueue(msgQ, 0, [server |-> "srv", queueId |-> resp.queueId,
                                                    command |-> resp.command])
                    ELSE msgQ' = msgQ /\ enqueued' = enqueued
      ]_vars

\* with no request made, the first transmission was dropped and the second,
\* an END, is on msgQ
C7_Witness ==
    /\ calls = << >>
    /\ recvd = 2 /\ tq = << >> /\ ~msgQ.closed
    /\ Len(enqueued) = 1
    /\ enqueued[1].command = [cmd |-> "END", seq |-> 2]
    /\ msgQ.buf = enqueued

\* C8: the ServerMessages enter msgQ in the order in which the transport
\* delivered their transmissions.
C8_MsgOrder ==
    \A a, b \in DOMAIN enqueued : a < b => enqueued[a].command.seq < enqueued[b].command.seq

\* while the loop was suspended on the full msgQ, the MSG answering a SUB and
\* a push behind it were waiting in the transport queue; both are on msgQ
C8_Witness ==
    /\ Len(enqueued) = 4
    /\ Len(calls) = 1
    /\ futures[1].state = "resolved" /\ futures[1].value.seq = 3
    /\ enqueued[3] = [server |-> "srv", queueId |-> calls[1].queueId,
                       command |-> futures[1].value]
    /\ enqueued[4].command.seq = 4 /\ enqueued[4].queueId = "q2"

\* C9: a block is handed to the socket only after its corrId was registered
\* in sentCommands.
C9_RegisteredBeforeEmit == \A n \in DOMAIN channel : channel[n].registered

\* the block of an unsigned call, whose write runs without awaiting a
\* signature, is on the channel
C9_Witness ==
    /\ channel # << >>
    /\ ~calls[channel[1].call].key
    /\ decodeAscii(channel[1].corrId) \in registered

\* the value read back from the bytes of a decimal string
RECURSIVE atoi(_)
atoi(s) == IF s = empty THEN 0 ELSE 10 * atoi(SubSeq(s, 1, Len(s) - 1)) + (s[Len(s)] - 48)

\* the bytes are decimal digits, with no leading zero
IsDecimal(s) ==
    /\ Len(s) >= 1
    /\ \A k \in DOMAIN s : s[k] \in 48..57
    /\ Len(s) > 1 => s[1] # 48

\* C10: the i-th call (from 1) carries the decimal form of i-1 as its
\* corrId, clientCorrId counts the calls, the corrIds are pairwise distinct,
\* and every request that is not settled still has its own entry.
C10_CorrIds ==
    /\ clientCorrId = Len(calls)
    /\ \A i \in DOMAIN calls : IsDecimal(calls[i].corrId) /\ atoi(calls[i].corrId) = i - 1
    /\ \A i, j \in DOMAIN calls : i < j => calls[i].corrId # calls[j].corrId
    /\ \A i \in DOMAIN calls :
          futures[i].state = "pending" =>
              /\ decodeAscii(calls[i].corrId) \in DOMAIN sentCommands
              /\ sentCommands[decodeAscii(calls[i].corrId)].call = i

\* the eleventh call was made with corrId "10" while the first ten are pending
C10_Witness ==
    /\ Len(calls) = 11
    /\ calls[11].corrId = <<49, 48>>
    /\ Cardinality(DOMAIN sentCommands) = 11

\* C11: every frame written is blockSize bytes long, and a step that takes a
\* receive IV or puts a parsed transmission on the transport queue was on a
\* binary frame of blockSize bytes.
C11_FrameSize ==
    [][ /\ \A n \in DOMAIN channel' : channel'[n].len = hs.blockSize
        /\ (\/ rcvKey' # rcvKey
            \/ (Len(tq') > Len(tq) /\ tq'[Len(tq')] # badBlock))
              => (lastFrame'.kind = "binary" /\ lastFrame'.len = hs.blockSize)
      ]_vars

\* a block was written, and a text frame came in and left badBlock on the
\* transport queue without a receive IV being taken
C11_Witness ==
    /\ channel # << >>
    /\ recvd = 1 /\ lastFrame.kind = "text"
    /\ tq = <<badBlock>>
    /\ rcvKey.counter = 1

\* C12: a write that reached tPutEncrypted has failed exactly when its payload
\* is blockSize - 16 bytes or longer, and a failed write has no frame on the
\* channel.
C12_LargeMessage ==
    \A i \in DOMAIN writes :
        writes[i].pc # "sign" =>
            /\ (writes[i].pc = "failed") <=> (calls[i].len >= hs.blockSize - 16)
            /\ writes[i].pc = "failed" => \A n \in DOMAIN channel : channel[n].call # i

\* a payload of blockSize - 17 bytes is on the channel and one of
\* blockSize - 16 bytes has failed
C12_Witness ==
    \E i, j \in DOMAIN writes :
        /\ calls[i].len = hs.blockSize - 17 /\ writes[i].pc = "sent"
        /\ \E n \in DOMAIN channel : channel[n].call = i
        /\ calls[j].len = hs.blockSize - 16 /\ writes[j].pc = "failed"

\* a write takes its send IV in this step
TakesSendIV(i) ==
    /\ writes'[i].counter >= 0
    /\ (i \in DOMAIN writes => writes[i].counter < 0)

\* C13: each counter stays or grows by one and the base IVs stay; a write that
\* takes its IV uses sndKey.counter, adds one to it and leaves rcvKey alone,
\* and sndKey changes in no other step; a block that is decrypted adds one to
\* rcvKey.counter and leaves sndKey alone, and rcvKey changes in no other step.
C13_Counters ==
    [][ /\ sndKey'.counter \in {sndKey.counter, sndKey.counter + 1}
        /\ rcvKey'.counter \in {rcvKey.counter, rcvKey.counter + 1}
        /\ sndKey'.baseIV = sndKey.baseIV /\ rcvKey'.baseIV = rcvKey.baseIV
        /\ \A i \in DOMAIN writes' :
              TakesSendIV(i) => /\ writes'[i].counter = sndKey.counter
                                /\ sndKey'.counter = sndKey.counter + 1
                                /\ rcvKey' = rcvKey
        /\ sndKey' # sndKey => \E i \in DOMAIN writes' : TakesSendIV(i)
        /\ (recvd' # recvd /\ lastFrame'.kind = "binary" /\ lastFrame'.len = hs.blockSize)
              => (rcvKey'.counter = rcvKey.counter + 1 /\ sndKey' = sndKey)
        /\ rcvKey' # rcvKey => recvd' = recvd + 1
      ]_vars

\* two writes have taken send IVs and two blocks were decrypted
C13_Witness == sndKey.counter = 2 /\ rcvKey.counter = 3

\* the width of the encoded counter
CounterLimit == ByteBase ^ 4

\* C14: the IV a write takes is the base IV with its first 4 bytes XORed with
\* the big-endian encoding of the counter before the increment and its other
\* bytes as they are; the base IV itself stays; and the IV differs from the IV
\* of every earlier write that took a different counter, for counters below
\* the width of the encoding.
C14_DerivedIV ==
    [][ /\ sndKey'.baseIV = sndKey.baseIV
        /\ \A i \in DOMAIN writes' :
              (TakesSendIV(i) /\ sndKey.counter < CounterLimit) =>
                  /\ Len(writes'[i].iv) = ivSize
                  /\ \A p \in 1..4 :
                        writes'[i].iv[p] =
                            xor(sndKey.baseIV[p],
                                (sndKey.counter \div (ByteBase ^ (4 - p))) % ByteBase)
                  /\ \A p \in 5..ivSize : writes'[i].iv[p] = sndKey.baseIV[p]
                  /\ \A j \in DOMAIN writes :
                        (writes[j].counter >= 0 /\ writes[j].counter # sndKey.counter)
                            => writes[j].iv # writes'[i].iv
      ]_vars

\* a write took the highest counter the encoding holds, after writes with
\* every counter below it
C14_Witness ==
    /\ Len(writes) = CounterLimit
    /\ writes[CounterLimit].counter = CounterLimit - 1

\* C15: no write takes a counter beyond the width of the encoding, and no two
\* writes that encrypt use the same IV.
C15_NoWrap ==
    /\ \A i \in DOMAIN writes : writes[i].counter < CounterLimit
    /\ \A i, j \in DOMAIN writes :
          (i < j /\ writes[i].pc \in {"encrypt", "sent"} /\ writes[j].pc \in {"encrypt", "sent"})
              => writes[i].iv # writes[j].iv

\* the stages the handshake has been through
Done(stage) == \E n \in DOMAIN hs.steps : hs.steps[n] = stage

\* the handshake has failed before generating keys or writing a frame
FailedEarly(e) ==
    /\ hs.pc = "failed" /\ hs.error = e
    /\ ~hs.keysGenerated /\ hs.written = 0
    /\ sndKey = noKey /\ rcvKey = noKey

\* the block size, transport mode and key size a header of 8 bytes announces
HeaderBlockSize(f) ==
    f.bytes[1] * 16777216 + f.bytes[2] * 65536 + f.bytes[3] * 256 + f.bytes[4]
HeaderMode(f) == f.bytes[5] * 256 + f.bytes[6]
HeaderKeySize(f) == f.bytes[7] * 256 + f.bytes[8]

HeaderBad(f) ==
    \/ f.kind # "binary"
    \/ f.len # 8
    \/ HeaderMode(f) # 0
    \/ HeaderBlockSize(f) < 4096
    \/ HeaderBlockSize(f) > 65536

\* C16: a first frame that is not binary of 8 bytes, announces a transport
\* mode other than 0 or a block size outside 4096..65536, and a second frame
\* that is not binary of keySize bytes, fail the handshake with a
\* TransportError before keys are generated or a frame is written; any other
\* header, with block size 4096 and 65536 among them, is accepted.
C16_HeaderChecks ==
    /\ (hs.header # noFrame /\ HeaderBad(hs.header)) =>
          /\ \E m \in {"invalid text block: expected binary", "invalid block size",
                       "bad header size", "bad transport mode", "bad block size"} :
                FailedEarly(TransportError(m))
          /\ hs.key = noFrame
    /\ (hs.header # noFrame /\ ~HeaderBad(hs.header)) =>
          /\ hs.blockSize = HeaderBlockSize(hs.header)
          /\ hs.keySize = HeaderKeySize(hs.header)
          /\ (hs.key = noFrame => hs.pc = "key")
    /\ (hs.key # noFrame /\ (hs.key.kind # "binary" \/ hs.key.len # HeaderKeySize(hs.header))) =>
          \E m \in {"invalid text block: expected binary", "invalid block size"} :
              FailedEarly(TransportError(m))

\* the header announced block size 65536 and was accepted, and the key frame,
\* one byte short, failed the handshake
C16_Witness ==
    /\ hs.blockSize = 65536
    /\ hs.key # noFrame /\ hs.key.kind = "binary" /\ hs.key.len = hs.keySize - 1
    /\ FailedEarly(TransportError("invalid block size"))

\* the key frame was read and has the announced size
KeyRead == hs.key # noFrame /\ hs.key.kind = "binary" /\ hs.key.len = hs.keySize

\* C17: with a keyHash, the hash check comes before the key is decoded; once
\* made, the handshake has gone on to decode the key exactly when keyHash has
\* 32 bytes and equals the SHA-256 of the key frame, and has otherwise failed
\* with `key hash does not match` before keys are generated or a frame is
\* written; without a keyHash no hash check is made.
C17_KeyHash ==
    /\ (hs.keyHash.given /\ KeyRead) =>
          /\ hs.pc = "hash" \/ Done("hash")
          /\ Done("decode") => Done("hash")
          /\ Done("hash") =>
                IF Len(hs.keyHash.bytes) = 32 /\ hs.keyHash.bytes = sha256(hs.key.raw)
                  THEN hs.pc = "decode" \/ Done("decode")
                  ELSE FailedEarly(TransportError("key hash does not match"))
    /\ ~hs.keyHash.given =>
          /\ ~Done("hash")
          /\ KeyRead => (hs.pc = "decode" \/ Done("decode"))

\* a keyHash that is the first 31 bytes of the key's hash was refused
C17_Witness ==
    /\ Done("hash")
    /\ hs.keyHash.given /\ hs.keyHash.bytes = SubSeq(sha256(hs.key.raw), 1, 31)
    /\ FailedEarly(TransportError("key hash does not match"))

\* C18: once the version a.b.c.d of the welcome block is checked, the
\* handshake has failed as incompatible exactly when a > 0, or a = 0 and
\* b > 4; otherwise it is done.
C18_Version ==
    Done("version") =>
        IF hs.version[1] > 0 \/ (hs.version[1] = 0 /\ hs.version[2] > 4)
          THEN hs.pc = "failed" /\ hs.error = TransportError("incompatible server version")
          ELSE hs.pc = "done" /\ hs.error = noError

\* the welcome block said 0.4.9.9 and the handshake is done
C18_Witness ==
    /\ hs.welcome # noFrame
    /\ hs.welcome.text = <<"0", ".", "4", ".", "9", ".", "9", " ">>
    /\ hs.version = <<0, 4, 9, 9>>
    /\ hs.pc = "done"

\* the order of the stages, with and without a keyHash
StageOrder ==
    IF hs.keyHash.given
      THEN <<"header", "key", "hash", "decode", "keys", "send", "welcome", "version">>
      ELSE <<"header", "key", "decode", "keys", "send", "welcome", "version">>

\* C19: the stages gone through are a prefix of: header, key (and hash),
\* decode, keys, send, welcome, version; keys exist exactly when the keys
\* stage is passed; the frames written are none before and one after the
\* send stage; and the handshake is done only after all stages, with a
\* compatible version.
C19_StageOrder ==
    /\ Len(hs.steps) <= Len(StageOrder)
    /\ hs.steps = SubSeq(StageOrder, 1, Len(hs.steps))
    /\ hs.keysGenerated <=> Done("keys")
    /\ hs.written = IF Done("send") THEN 1 ELSE 0
    /\ hs.pc = "done" =>
          /\ hs.steps = StageOrder
          /\ ~(hs.version[1] > 0 \/ (hs.version[1] = 0 /\ hs.version[2] > 4))

\* a handshake with a keyHash is done, with one frame written
C19_Witness ==
    /\ hs.pc = "done"
    /\ hs.keyHash.given
    /\ hs.written = 1
    /\ rcvKey.counter = 1 /\ sndKey.counter = 0

\* C20: for every command of the 14 variants, with non-empty keys and ids and
\* a message body of any length (empty included) and any bytes, parsing the
\* serialization gives back the command.
C20_RoundTrip ==
    codec.pc = "parsed" => codec.parsed = codec.cmd

\* the outcome the parts of a block call for
CmdErrorOf(e) == [corrId |-> codec.corrId, queueId |-> codec.queueId, error |-> smpCmdError(e)]
ExpectedOutcome ==
    IF codec.shape # "framed" THEN badBlockBytes
    ELSE IF ~codec.text.ok THEN CmdErrorOf("SYNTAX")
    ELSE IF codec.text.command.party # "B" THEN CmdErrorOf("PROHIBITED")
    ELSE IF codec.text.command.cmd \in {"IDS", "PONG"} /\ codec.queueId # empty
      THEN CmdErrorOf("HAS_AUTH")
    ELSE IF codec.text.command.cmd \in {"MSG", "END", "OK"} /\ codec.queueId = empty
      THEN CmdErrorOf("NO_QUEUE")
    ELSE [corrId |-> codec.corrId, queueId |-> codec.queueId, command |-> codec.text.command]

C22_SignatureIgnored ==
    codec.pc = "both parsed" => codec.resigned = codec.result

\* C23: when processWSQueue takes a block of exactly blockSize bytes that
\* fails AES-GCM authentication, a transmission with error BLOCK is put on the
\* transport's queue for its reader.
C23_AuthFailureIsBlock ==
    [][ (/\ recvd' = recvd + 1
         /\ lastFrame'.kind = "binary"
         /\ lastFrame'.len = hs.blockSize
         /\ ~lastFrame'.auth)
            => tq' = Append(tq, badBlock)
      ]_vars

\* C24: once processWSQueue has taken a text frame, no later frame puts a
\* command on the transport's queue.
C24_TextFrameFatal ==
    [][ (lastFrame.kind = "text" /\ recvd' = recvd + 1)
            => ~(Len(tq') > Len(tq) /\ "command" \in DOMAIN tq'[Len(tq')])
      ]_vars

\* C27: whenever disconnect() has been called, the socket closes, the
\* inbound loop ends, connected becomes false and the client promise that
\* disconnect() awaits is resolved; connected never returns to true.
C27_DisconnectCompletes ==
    /\ (conn = "closing") ~> (conn = "closed" /\ loop = "done" /\ ~connected)
    /\ [](~connected => [](~connected))

\* the step in which the wrapper of call i resumes after its await
Resumes(i) == jobs # << >> /\ Head(jobs) = contJob(i) /\ jobs' = Tail(jobs)

\* the response a wrapper takes for success
Expected(cmd) == IF cmd = "NEW" THEN "IDS" ELSE "OK"

\* the step in which runClient matches an ERR response to call i
MatchesErr(i) ==
    /\ jobs # << >> /\ Head(jobs) = loopJob /\ tq # << >>
    /\ decodeAscii(Head(tq).corrId) \in DOMAIN sentCommands
    /\ sentCommands[decodeAscii(Head(tq).corrId)].call = i
    /\ "command" \in DOMAIN Head(tq)
    /\ Head(tq).command.cmd = "ERR"
    /\ tq' = Tail(tq)

\* C25: createSMPQueue succeeds exactly when the matched response is IDS;
\* secureSMPQueue, sendSMPMessage, suspendSMPQueue and deleteSMPQueue exactly
\* when it is OK; another response that is no error fails the call with
\* `unexpected response`, and an ERR response fails it with the error the
\* broker sent.
C25_WrapperOutcome ==
    [][ \A i \in DOMAIN calls :
          /\ (Resumes(i) /\ calls[i].cmd \in {"NEW", "KEY", "SEND", "OFF", "DEL"}) =>
                /\ results'[i] = "ok" <=>
                      (futures[i].state = "resolved"
                       /\ futures[i].value.cmd = Expected(calls[i].cmd))
                /\ (futures[i].state = "resolved"
                    /\ futures[i].value.cmd # Expected(calls[i].cmd))
                      => results'[i] = "unexpected response"
                /\ futures[i].state = "rejected" => results'[i] = "error"
          /\ MatchesErr(i) =>
                /\ futures'[i].state = "rejected"
                /\ futures'[i].value = [error |-> Head(tq).command.error]
      ]_vars

\* createSMPQueue got OK and failed with `unexpected response`
C25_Witness ==
    \E i \in DOMAIN calls :
        /\ calls[i].cmd = "NEW"
        /\ futures[i].state = "resolved"
        /\ futures[i].value.cmd = "OK"
        /\ results[i] = "unexpected response"

\* how often a ServerMessage entered msgQ
Count(m) == Cardinality({k \in DOMAIN enqueued : enqueued[k] = m})

\* C26: subscribeSMPQueue and ackSMPMessage succeed when the matched response
\* is OK or MSG and fail otherwise; with MSG, one ServerMessage carrying it has
\* entered msgQ when the call completes, and none before the wrapper resumed;
\* with OK the wrapper enqueues nothing.
C26_MsgWrappers ==
    [][ \A i \in DOMAIN calls : calls[i].cmd \in {"SUB", "ACK"} =>
          LET f == futures[i]
              m == ServerMessage(calls[i].queueId, f.value)
          IN  /\ (Resumes(i) /\ f.state = "resolved" /\ f.value.cmd = "OK") =>
                    (results'[i] = "ok" /\ enqueued' = enqueued /\ msgQ' = msgQ)
              /\ (Resumes(i) /\ f.state = "resolved" /\ f.value.cmd = "MSG") =>
                    /\ Count(m) = 0
                    /\ results'[i] \in {"ok", "enqueue"}
                    /\ results'[i] = "ok" => enqueued' = Append(enqueued, m)
                    /\ results'[i] = "enqueue" => enqueued' = enqueued
              /\ (results[i] = "enqueue" /\ results'[i] # "enqueue") =>
                    (results'[i] = "ok" /\ enqueued' = Append(enqueued, m))
              /\ (Resumes(i) /\ f.state = "resolved" /\ f.value.cmd \notin {"OK", "MSG"}) =>
                    results'[i] = "unexpected response"
              /\ (Resumes(i) /\ f.state = "rejected") => results'[i] = "error"
              /\ (results[i] = "ok" /\ f.state = "resolved" /\ f.value.cmd = "MSG") =>
                    Count(m) = 1
      ]_vars

\* ackSMPMessage got MSG while msgQ was full, waited, and completed when the
\* application took a message
C26_Witness ==
    \E i \in DOMAIN calls :
        /\ calls[i].cmd = "ACK"
        /\ futures[i].state = "resolved"
        /\ futures[i].value.cmd = "MSG"
        /\ results[i] = "ok"
        /\ Len(enqueued) = 2
        /\ enqueued[2] = ServerMessage(calls[i].queueId, futures[i].value)

\* the write of call i is rejected
WriteFailed(w, i) == i \in DOMAIN w /\ w[i].pc \in {"failed", "timeout"}

\* C28: in the step in which the transport write of a request fails, by
\* timeout or in encryptAES, the request's entry in sentCommands and its
\* promise are left as they were (pending and registered when the write fails
\* within the sendSMPCommand run itself), and the other requests and
\* clientCorrId are untouched by the failure.
C28_WriteFailure ==
    [][ \A i \in DOMAIN writes' : (WriteFailed(writes', i) /\ ~WriteFailed(writes, i)) =>
          IF i \in DOMAIN writes
            THEN /\ futures' = futures
                 /\ sentCommands' = sentCommands
                 /\ clientCorrId' = clientCorrId
            ELSE /\ futures'[i].state = "pending"
                 /\ decodeAscii(calls'[i].corrId) \in DOMAIN sentCommands'
                 /\ sentCommands'[decodeAscii(calls'[i].corrId)].call = i
                 /\ \A k \in DOMAIN futures : futures'[k] = futures[k]
                 /\ \A c \in DOMAIN sentCommands : sentCommands'[c] = sentCommands[c]
                 /\ clientCorrId' = clientCorrId + 1
      ]_vars

\* one write timed out and one failed in encryptAES after signing; both
\* requests are pending and registered
C28_Witness ==
    /\ Len(calls) = 2
    /\ writes[1].pc = "timeout" /\ writes[2].pc = "failed" /\ calls[2].key
    /\ futures[1].state = "pending" /\ futures[2].state = "pending"
    /\ DOMAIN sentCommands = {numberToString(0), numberToString(1)}

Base64Alphabet == (65..90) \cup (97..122) \cup (48..57) \cup {43, 47}
CeilThird(n) == CHOOSE c \in 0..n : 3 * c >= n /\ 3 * (c - 1) < n
EqualsCount(b) == Cardinality({i \in DOMAIN b : b[i] = 61})
IsPadding(b, i) ==
    /\ b[i] = 61
    /\ \/ i = Len(b)
       \/ i = Len(b) - 1 /\ b[Len(b)] = 61

\* C30: encodeBase64(x) has ceil(|x|/3)*4 bytes and ends with two '=' when
\* |x| mod 3 = 1, one when it is 2 and has none otherwise; decodeBase64 of it
\* is x; and decodeBase64 is undefined for a text whose length is not a
\* multiple of 4 or that has a byte outside the alphabet other than trailing
\* '=' padding.
C30_Base64 ==
    /\ codec.pc \in {"encoded", "roundtrip"} =>
         LET n == Len(codec.x)
             e == codec.enc
             pads == IF n % 3 = 1 THEN 2 ELSE IF n % 3 = 2 THEN 1 ELSE 0
         IN  /\ Len(e) = CeilThird(n) * 4
             /\ EqualsCount(e) = pads
             /\ \A i \in DOMAIN e : e[i] = 61 <=> i > Len(e) - pads
             /\ \A i \in DOMAIN e : e[i] \in Base64Alphabet \cup {61}
    /\ codec.pc = "roundtrip" => codec.dec.ok /\ codec.dec.val = codec.x
    /\ ( /\ codec.pc = "decoded"
         /\ \/ Len(codec.x) % 4 # 0
            \/ \E i \in DOMAIN codec.x :
                 codec.x[i] \notin Base64Alphabet /\ ~IsPadding(codec.x, i) )
       => ~codec.dec.ok

\* four bytes round-tripped over two groups, the second padded with two '='
C30_Witness ==
    /\ codec.pc = "roundtrip"
    /\ codec.x = <<255, 0, 104, 255>>
    /\ codec.enc = <<47, 119, 66, 111, 47, 119, 61, 61>>
    /\ codec.dec.val = codec.x

\* the transport has delivered a transmission with the corrId of call i while
\* its future is pending
ResponseDelivered(i) ==
    /\ i \in DOMAIN calls
    /\ futures[i].state = "pending"
    /\ \E k \in DOMAIN tq : tq[k].corrId = calls[i].corrId

RequestSettled(i) == i \in DOMAIN futures /\ futures[i].state # "pending"

\* C31: once the response for a pending corrId is on the transport queue and
\* the connection stays open, the request's future is eventually settled,
\* with the inbound loop scheduled fairly and whatever the application does
\* with msgQ.
C31_ResponseSettles ==
    [](ResponseDelivered(1) => <>(RequestSettled(1) \/ conn # "open"))

\* the frame processWSQueue took in this step is text or not of blockSize bytes
MalformedFrame(f) == f.kind = "text" \/ f.len # hs.blockSize

\* C32: a step of processWSQueue on a text frame or a frame of another length
\* appends badBlock to the transport queue, leaves the receive counter and
\* keeps the loop running; a step on a well-formed block takes exactly the
\* next receive counter and appends that block's transmission behind what was
\* delivered before.
C32_BadFrameContinues ==
    [][ recvd' = recvd + 1 =>
          IF MalformedFrame(lastFrame')
            THEN /\ tq' = Append(tq, badBlock)
                 /\ rcvKey' = rcvKey
                 /\ wsLoop' = "run"
            ELSE /\ rcvKey'.counter = rcvKey.counter + 1
                 /\ rcvKey'.baseIV = rcvKey.baseIV
                 /\ Len(tq') = Len(tq) + 1
                 /\ SubSeq(tq', 1, Len(tq)) = tq
                 /\ LET t == tq'[Len(tq')]
                    IN  t = badBlock \/ t.command.seq = recvd'
                 /\ wsLoop' = "run"
      ]_vars

\* a malformed frame, then a well-formed block: after two frames one receive
\* counter was taken, badBlock has been handled by the client and the block's
\* MSG is on the transport queue
C32_Witness ==
    /\ recvd = 2
    /\ rcvKey.counter = 2
    /\ ~MalformedFrame(lastFrame)
    /\ tq = <<[corrId |-> empty, queueId |-> "q1", command |-> [cmd |-> "MSG", seq |-> 2]]>>
    /\ wsLoop = "run"

\* the bytes corrId ' ' base64(queueId) ' ' serialize(command) of a transmission
SignedBytes(t) ==
    t.corrId \o <<32>> \o encodeBase64(t.queueId) \o <<32>> \o serializeSMPCommand(t.command)

\* C33: the plaintext of a written block is base64(sig) ' ' corrId ' '
\* base64(queueId) ' ' serialize(command) ' ' followed by '#' up to
\* blockSize - 16 bytes, sig being the signature of corrId ' '
\* base64(queueId) ' ' serialize(command) when a key is given and empty
\* otherwise, so that an unsigned transmission starts with a space.
C33_WrittenBytes ==
    codec.pc = "plaintext" =>
        LET t == codec.t
            sig == IF t.key = "" THEN << >> ELSE sign(t.key, SignedBytes(t))
            framed == encodeBase64(sig) \o <<32>> \o SignedBytes(t) \o <<32>>
        IN  /\ Len(codec.plain) = hs.blockSize - 16
            /\ SubSeq(codec.plain, 1, Len(framed)) = framed
            /\ \A i \in (Len(framed) + 1)..Len(codec.plain) : codec.plain[i] = 35
            /\ t.key = "" => codec.plain[1] = 32

\* an unsigned SUB with corrId "1" and an empty queueId: " 1  SUB " and padding
C33_Witness ==
    /\ codec.pc = "plaintext"
    /\ codec.t.key = ""
    /\ SubSeq(codec.plain, 1, 9) = <<32, 49, 32, 32, 83, 85, 66, 32, 35>>

\* C34: when take, takeWhile1, space, str, someStr, base64, decimal or date
\* has reported failure, the cursor is where it was before the call.
C34_NonConsumingOnFailure ==
    (codec.pc = "done" /\ ~codec.ok) => codec.after = codec.pos

\* C35: when a call of try returns, the cursor is at the position the call
\* saved if its parser returned a falsy result, and where the parser left it,
\* with the parser's result returned, otherwise; the stack of saved positions
\* is as deep as before the call, for nested calls too.
C35_TryRestores ==
    [][ codec.pc = "exit" =>
          LET saved == codec.positions[Len(codec.positions)]
          IN  /\ codec.res # "truthy" => codec'.pos = saved
              /\ codec.res = "truthy" => codec'.pos = codec.pos /\ codec'.res = "truthy"
              /\ codec'.positions = SubSeq(codec.positions, 1, Len(codec.positions) - 1)
      ]_vars

\* C36: the step in which an encrypted write fails with `large message`
\* leaves the send counter as it was.
C36_FailedWriteKeepsCounter ==
    [][ \A i \in DOMAIN writes' :
          (writes'[i].pc = "failed" /\ (i \in DOMAIN writes => writes[i].pc # "failed"))
            => sndKey'.counter = sndKey.counter
      ]_vars

\* the inbound loop is about to handle the transmission t
LoopHandles(t) ==
    jobs # << >> /\ Head(jobs).type = "loop" /\ tq # << >> /\ Head(tq) = t

\* C37: every key of sentCommands is a non-empty string of decimal digits,
\* and the step of the inbound loop that handles a badBlock takes it from the
\* transport queue and leaves sentCommands, the futures and msgQ as they were.
C37_BadBlockIgnored ==
    /\ [](\A c \in DOMAIN sentCommands :
             c # << >> /\ \A k \in DOMAIN c : \E n \in DOMAIN DigitChars : c[k] = DigitChars[n])
    /\ [][ LoopHandles(badBlock) =>
             /\ tq' = Tail(tq)
             /\ sentCommands' = sentCommands
             /\ futures' = futures
             /\ msgQ' = msgQ
             /\ enqueued' = enqueued
         ]_vars

\* a malformed frame was delivered as badBlock and handled while a request is
\* pending: the request is still registered
C37_Witness ==
    /\ recvd = 1
    /\ MalformedFrame(lastFrame)
    /\ tq = << >> /\ jobs = << >> /\ loop = "await"
    /\ Len(calls) = 1
    /\ futures[1].state = "pending"
    /\ DOMAIN sentCommands = {numberToString(0)}
    /\ msgQ.buf = << >>

\* C38: when clientHandshake has returned, sndKey.counter is 0 and
\* rcvKey.counter is 1, the welcome block having taken receive counter 0: the
\* IV of the first write is the send base IV, and the first block read
\* afterwards takes receive counter 1.
C38_CountersAfterHandshake ==
    hs.pc = "done" =>
        /\ sndKey.counter = 0
        /\ rcvKey.counter = 1
        /\ nextIV(sndKey).iv = sndKey.baseIV
        /\ tPutEncrypted(sndKey, 1).counter = 0
        /\ nextIV(rcvKey).key.counter = 2
        /\ hs.welcome.auth /\ hs.welcome.len = hs.blockSize

\* a handshake that returned, with distinct base IVs for the two directions
C38_Witness ==
    /\ hs.pc = "done"
    /\ sndKey = [baseIV |-> SndIV, counter |-> 0]
    /\ rcvKey = [baseIV |-> RcvIV, counter |-> 1]

\* a parsed transmission that carries a command carries a broker command with
\* the queueId its kind calls for
QueueIdDiscipline(r) ==
    "command" \in DOMAIN r =>
        /\ r.command.party = "B"
        /\ r.command.cmd \in {"IDS", "PONG"} => r.queueId = << >>
        /\ r.command.cmd \in {"MSG", "END", "OK"} => r.queueId # << >>

\* what the inbound loop puts on msgQ for a parsed transmission that matches
\* no request is a MSG or END with a queueId
EnqueuedIsMessage(r) ==
    ~Dropped(r) =>
        LET m == ServerMessage(r.queueId, r.command)
        IN  m.command.cmd \in {"MSG", "END"} /\ m.queueId # << >>

\* C39: every transmission parseSMPTransmission delivers with a command
\* carries a broker command that obeys the queue-id discipline, and the
\* ServerMessage the inbound loop makes of a delivered transmission is a MSG
\* or END with a non-empty queueId.
C39_DeliveredCommands ==
    /\ codec.pc \in {"parsed", "both parsed"} =>
         QueueIdDiscipline(codec.result) /\ EnqueuedIsMessage(codec.result)
    /\ codec.pc = "both parsed" =>
         QueueIdDiscipline(codec.resigned) /\ EnqueuedIsMessage(codec.resigned)

\* a MSG with a queueId was parsed, and the loop would enqueue it
C39_Witness ==
    /\ codec.pc = "parsed"
    /\ "command" \in DOMAIN codec.result
    /\ codec.result.command.cmd = "MSG"
    /\ codec.result.queueId = <<1, 2, 3>>
    /\ ~Dropped(codec.result)

====
